---- MODULE Spec2Model ----
(***************************************************************************)
(* Model of the retrieval-augmented decision engine (RAGQueryEngine) of    *)
(* src/app/rag/rag_system/rag_query.py with the shared policy constants of *)
(* src/app/rag/knowledge_base/generate_policies.py and the collection      *)
(* management of src/app/rag/rag_system/chromadb_config.py.                *)
(*                                                                         *)
(* Strings are modelled as sequences of one-character strings, so that     *)
(* split, strip, lower, upper and substring search are computed as the     *)
(* Python code computes them.  Similarities and distances are fixed-point  *)
(* numbers in units of 1/10000; rounded scores are in units of 1/1000.     *)
(***************************************************************************)
EXTENDS Integers, Sequences, FiniteSets, TLC

VARIABLES resetting, pc, call, result

vars == <<resetting, pc, call, result>>

-----------------------------------------------------------------------------
(* Bounds of the model *)

\* longest comma-separated flag list of a transaction
MaxFlags == 3

\* longest flag list of a transaction handed to the whole handler
MaxHandlerFlags == 1

\* most passages the similarity index returns for one search
MaxPassages == 2

\* most passages the index returns to a search of an agent method
MaxAgentPassages == 1

\* longest complaint text, in words
MaxComplaintWords == 2

\* the longest text given to the chunker, in sentences and separator lines
MaxTextItems == 4

\* longest answer handed to extract_department_code, in fragments
MaxAnswerParts == 2

\* most questions in one batch_query
MaxBatch == 3

\* threads of the event loop's default executor, which runs asyncio.to_thread
MaxWorkers == 2

-----------------------------------------------------------------------------
(* Python string operations *)

UpperLetters == <<"A","B","C","D","E","F","G","H","I","J","K","L","M","N","O","P","Q","R","S","T","U","V","W","X","Y","Z">>

LowerLetters == <<"a","b","c","d","e","f","g","h","i","j","k","l","m","n","o","p","q","r","s","t","u","v","w","x","y","z">>

\* the lower-case form of each upper-case letter
LowerOf == [c \in {UpperLetters[i] : i \in 1..26} |->
              LowerLetters[CHOOSE i \in 1..26 : UpperLetters[i] = c]]

\* the upper-case form of each lower-case letter
UpperOf == [c \in {LowerLetters[i] : i \in 1..26} |->
              UpperLetters[CHOOSE i \in 1..26 : LowerLetters[i] = c]]

\* str.lower() on one character
LowerChar(c) == IF c \in DOMAIN LowerOf THEN LowerOf[c] ELSE c

\* str.upper() on one character
UpperChar(c) == IF c \in DOMAIN UpperOf THEN UpperOf[c] ELSE c

\* str.lower()
lower(s) == <<>> \o [i \in 1..Len(s) |-> LowerChar(s[i])]

\* str.upper()
upper(s) == <<>> \o [i \in 1..Len(s) |-> UpperChar(s[i])]

IsSpace(c) == c \in {" ", "\n", "\t"}

\* str.strip(): drop leading and trailing whitespace
strip(s) ==
    LET keep == {i \in 1..Len(s) : ~IsSpace(s[i])}
    IN  IF keep = {} THEN <<>>
        ELSE LET lo == CHOOSE i \in keep : \A j \in keep : i <= j
                 hi == CHOOSE i \in keep : \A j \in keep : i >= j
             IN  SubSeq(s, lo, hi)

\* sep occurs in s at position i
OccursAt(s, i, sep) == \A k \in 1..Len(sep) : s[i + k - 1] = sep[k]

\* Python's `sep in s` for strings
Contains(s, sep) == \E i \in 1..(Len(s) - Len(sep) + 1) : OccursAt(s, i, sep)

RECURSIVE Cuts(_, _, _)
\* where str.split cuts: the occurrences of sep taken left to right, each
\* one starting at or after the end of the one before
Cuts(occ, width, from) ==
    LET rest == {i \in occ : i >= from}
    IN  IF rest = {} THEN <<>>
        ELSE LET i == CHOOSE k \in rest : \A j \in rest : k <= j
             IN  <<i>> \o Cuts(occ, width, i + width)

\* str.split(sep) for a non-empty separator
split(s, sep) ==
    LET occ == {i \in 1..(Len(s) - Len(sep) + 1) : OccursAt(s, i, sep)}
        cuts == Cuts(occ, Len(sep), 1)
    IN  [k \in 1..(Len(cuts) + 1) |->
            SubSeq(s, IF k = 1 THEN 1 ELSE cuts[k - 1] + Len(sep),
                      IF k = Len(cuts) + 1 THEN Len(s) ELSE cuts[k] - 1)]

RECURSIVE join(_, _)
\* sep.join(parts)
join(sep, parts) ==
    IF parts = <<>> THEN <<>>
    ELSE IF Len(parts) = 1 THEN parts[1]
    ELSE parts[1] \o sep \o join(sep, Tail(parts))

RECURSIVE SumSeq(_)
SumSeq(s) == IF s = <<>> THEN 0 ELSE Head(s) + SumSeq(Tail(s))

Min(a, b) == IF a <= b THEN a ELSE b

-----------------------------------------------------------------------------
(* Shared constants: generate_policies.py *)

\* a Python dict as the sequence of its items, in insertion order
MERCHANT_RISK == <<
    <<<<"f","i","n","t","e","c","h">>, 25>>, <<<<"t","r","a","n","s","p","o","r","t">>, 15>>, <<<<"e","d","u","c","a","t","i","o","n">>, 15>>,
    <<<<"h","e","a","l","t","h","c","a","r","e">>, 15>>, <<<<"t","e","l","e","c","o","m","s">>, 5>>, <<<<"s","u","p","e","r","m","a","r","k","e","t">>, 0>>,
    <<<<"r","e","s","t","a","u","r","a","n","t","s">>, 0>>, <<<<"f","u","e","l">>, 0>>, <<<<"u","t","i","l","i","t","i","e","s">>, 0>> >>

FLAG_WEIGHTS == <<
    <<<<"m","o","b","i","l","e","_","c","h","a","n","n","e","l","_","r","i","s","k">>, 15>>, <<<<"h","i","g","h","_","a","m","o","u","n","t","_","s","p","i","k","e">>, 25>>,
    <<<<"m","u","l","t","i","p","l","e","_","f","a","i","l","u","r","e","s">>, 20>>, <<<<"n","o","r","m","a","l","_","p","a","t","t","e","r","n">>, 0>> >>

RISK_THRESHOLDS == <<
    <<"LOW", 0, 30>>, <<"MEDIUM", 31, 60>>, <<"HIGH", 61, 85>>, <<"CRITICAL", 86, 100>> >>

\* dict.get(key, default) on a dict given as its item sequence
DictGet(d, key, default) ==
    IF \E i \in 1..Len(d) : d[i][1] = key
    THEN d[CHOOSE i \in 1..Len(d) : d[i][1] = key][2]
    ELSE default

-----------------------------------------------------------------------------
(* Transactions: the dict passed to calculate_fraud_risk *)

\* a key the dict does not have
Absent == <<"ABSENT">>

\* the Python value None
NoneValue == <<"NONE">>

\* dict.get(key, default) on a record of the transaction
Get(d, key, default) == IF d[key] = Absent THEN default ELSE d[key]

\* str(x) for a string or None
str(x) == IF x = NoneValue THEN <<"N","o","n","e">> ELSE x

Digits == <<"0","1","2","3","4","5","6","7","8","9">>

IsDigit(c) == \E i \in 1..10 : Digits[i] = c

DigitValue(c) == (CHOOSE i \in 1..10 : Digits[i] = c) - 1

\* the two-digit number at s[i..i+1], or -1
TwoDigits(s, i) ==
    IF i + 1 <= Len(s) /\ IsDigit(s[i]) /\ IsDigit(s[i + 1])
    THEN 10 * DigitValue(s[i]) + DigitValue(s[i + 1])
    ELSE 0 - 1

\* str.replace(' ', 'T')
replace_space_T(s) == <<>> \o [i \in 1..Len(s) |-> IF s[i] = " " THEN "T" ELSE s[i]]

\* datetime.fromisoformat on YYYY-MM-DD, YYYY-MM-DDTHH:MM and
\* YYYY-MM-DDTHH:MM:SS; ok = FALSE stands for ValueError
fromisoformat(s) ==
    LET dateOk ==
            /\ Len(s) >= 10
            /\ \A i \in {1, 2, 3, 4} : IsDigit(s[i])
            /\ s[5] = "-" /\ s[8] = "-"
            /\ TwoDigits(s, 6) \in 1..12
            /\ TwoDigits(s, 9) \in 1..31
        timeOk ==
            /\ Len(s) \in {16, 19}
            /\ s[11] = "T"
            /\ TwoDigits(s, 12) \in 0..23
            /\ s[14] = ":"
            /\ TwoDigits(s, 15) \in 0..59
            /\ Len(s) = 19 => (s[17] = ":" /\ TwoDigits(s, 18) \in 0..59)
    IN  IF dateOk /\ Len(s) = 10 THEN [ok |-> TRUE, hour |-> 0]
        ELSE IF dateOk /\ timeOk THEN [ok |-> TRUE, hour |-> TwoDigits(s, 12)]
        ELSE [ok |-> FALSE, hour |-> 0]

\* float(transaction.get('amount', 0)): raises TypeError on None and
\* ValueError on a string that is no number
FloatRaises(amount) == amount.kind \in {"none", "text"}

\* the value of float(...) when it does not raise (whole currency units)
Float(amount) == IF amount.kind = "number" THEN amount.val ELSE 0

-----------------------------------------------------------------------------
(* calculate_fraud_risk: the scoring steps 1 to 6 *)

\* STEP 1: the sum of FLAG_WEIGHTS over the comma-separated flags
flag_score(transaction) ==
    LET trace == str(Get(transaction, "fraud_explainability_trace", <<"n","o","r","m","a","l","_","p","a","t","t","e","r","n">>))
        flags == split(trace, <<",">>)
    IN  SumSeq(<<>> \o [i \in 1..Len(flags) |-> DictGet(FLAG_WEIGHTS, strip(flags[i]), 0)])

\* STEP 2: merchant category risk
merchant_risk(transaction) ==
    LET merchant_category == strip(lower(str(Get(transaction, "merchant_category", <<>>))))
    IN  DictGet(MERCHANT_RISK, merchant_category, 0)

\* variant of STEP 3 that wants more than the high-value amount
timing_risk_StrictAmount(transaction) ==
    LET timestamp == str(Get(transaction, "transaction_timestamp", <<>>))
        amount == Float(transaction.amount)
        dt == fromisoformat(replace_space_T(timestamp))
    IN  IF timestamp # <<>> /\ dt.ok /\ 0 <= dt.hour /\ dt.hour < 5 /\ amount > 100000
        THEN 20 ELSE 0

\* STEP 3: odd-hour high-value bonus
timing_risk(transaction) ==
    LET timestamp == str(Get(transaction, "transaction_timestamp", <<>>))
        amount == Float(transaction.amount)
        dt == fromisoformat(replace_space_T(timestamp))
    IN  IF timestamp # <<>> /\ dt.ok /\ 0 <= dt.hour /\ dt.hour < 5 /\ amount >= 100000
        THEN 20 ELSE 0

risk_breakdown(transaction) ==
    [flag_score |-> flag_score(transaction),
     merchant_risk |-> merchant_risk(transaction),
     timing_risk |-> timing_risk(transaction)]

\* variant of STEP 4 that forgets the cap
total_risk_Uncapped(breakdown) ==
    breakdown.flag_score + breakdown.merchant_risk + breakdown.timing_risk

\* STEP 4: total, capped at 100
total_risk(breakdown) ==
    Min(breakdown.flag_score + breakdown.merchant_risk + breakdown.timing_risk, 100)

\* variant of STEP 5 whose bands exclude their upper edge
risk_level_StrictUpper(total) ==
    LET hits == {i \in 1..Len(RISK_THRESHOLDS) :
                    RISK_THRESHOLDS[i][2] <= total /\ total < RISK_THRESHOLDS[i][3]}
    IN  IF hits = {} THEN "LOW"
        ELSE RISK_THRESHOLDS[CHOOSE i \in hits : \A j \in hits : i <= j][1]

\* STEP 5: the first band of RISK_THRESHOLDS that contains the total, else LOW
risk_level(total) ==
    LET hits == {i \in 1..Len(RISK_THRESHOLDS) :
                    RISK_THRESHOLDS[i][2] <= total /\ total <= RISK_THRESHOLDS[i][3]}
    IN  IF hits = {} THEN "LOW"
        ELSE RISK_THRESHOLDS[CHOOSE i \in hits : \A j \in hits : i <= j][1]

\* variant of STEP 6 that blocks HIGH as well
risk_action_BlockHigh(level) ==
    IF level = "CRITICAL" \/ level = "HIGH"
    THEN [action |-> <<"B","L","O","C","K"," ","t","r","a","n","s","a","c","t","i","o","n"," ","i","m","m","e","d","i","a","t","e","l","y"," ","a","n","d"," ","f","r","e","e","z","e"," ","a","c","c","o","u","n","t">>,
          requires_challenge |-> level = "HIGH", should_block |-> TRUE]
    ELSE IF level = "MEDIUM"
    THEN [action |-> <<"S","t","e","p","-","u","p"," ","a","u","t","h","e","n","t","i","c","a","t","i","o","n"," ","v","i","a"," ","O","T","P">>,
          requires_challenge |-> TRUE, should_block |-> FALSE]
    ELSE [action |-> <<"P","r","o","c","e","s","s"," ","n","o","r","m","a","l","l","y"," ","w","i","t","h"," ","S","M","S"," ","a","l","e","r","t"," ","a","f","t","e","r"," ","t","r","a","n","s","a","c","t","i","o","n">>,
          requires_challenge |-> FALSE, should_block |-> FALSE]

\* STEP 6: action and flags of a level
risk_action(level) ==
    IF level = "CRITICAL"
    THEN [action |-> <<"B","L","O","C","K"," ","t","r","a","n","s","a","c","t","i","o","n"," ","i","m","m","e","d","i","a","t","e","l","y"," ","a","n","d"," ","f","r","e","e","z","e"," ","a","c","c","o","u","n","t">>,
          requires_challenge |-> FALSE, should_block |-> TRUE]
    ELSE IF level = "HIGH"
    THEN [action |-> <<"M","a","n","d","a","t","o","r","y"," ","p","u","s","h","-","t","o","-","a","p","p"," ","b","i","o","m","e","t","r","i","c"," ","c","h","a","l","l","e","n","g","e">>,
          requires_challenge |-> TRUE, should_block |-> FALSE]
    ELSE IF level = "MEDIUM"
    THEN [action |-> <<"S","t","e","p","-","u","p"," ","a","u","t","h","e","n","t","i","c","a","t","i","o","n"," ","v","i","a"," ","O","T","P">>,
          requires_challenge |-> TRUE, should_block |-> FALSE]
    ELSE [action |-> <<"P","r","o","c","e","s","s"," ","n","o","r","m","a","l","l","y"," ","w","i","t","h"," ","S","M","S"," ","a","l","e","r","t"," ","a","f","t","e","r"," ","t","r","a","n","s","a","c","t","i","o","n">>,
          requires_challenge |-> FALSE, should_block |-> FALSE]

\* the numeric verdict: everything of the result that steps 1 to 6 decide
Verdict(transaction) ==
    LET breakdown == risk_breakdown(transaction)
        total == total_risk(breakdown)
        level == risk_level(total)
        act == risk_action(level)
    IN  [total_risk_score |-> total,
         risk_level |-> level,
         risk_breakdown |-> breakdown,
         recommended_action |-> act.action,
         requires_challenge |-> act.requires_challenge,
         should_block |-> act.should_block]

\* calculate_fraud_risk, lines 907-988: the steps before the retrieval.
\* float() raises before any score is returned
score_transaction(transaction) ==
    IF FloatRaises(transaction.amount) THEN [kind |-> "raised", exception |-> "float"]
    ELSE [kind |-> "verdict", verdict |-> Verdict(transaction)]

-----------------------------------------------------------------------------
(* The similarity index (ChromaDB): an external collaborator *)

\* ChromaDBConfig.COLLECTION_POLICIES, COLLECTION_FAQS, COLLECTION_ALL
COLLECTION_POLICIES == <<"b","a","n","k","_","p","o","l","i","c","i","e","s">>

COLLECTION_FAQS == <<"c","u","s","t","o","m","e","r","_","f","a","q","s">>

COLLECTION_ALL == <<"a","l","l","_","d","o","c","u","m","e","n","t","s">>

Collections == {COLLECTION_POLICIES, COLLECTION_FAQS, COLLECTION_ALL}

\* chunk texts the index may hand back
ContentFraud ==
    <<"R","O","U","T","I","N","G"," ","R","U","L","E","S","\n","\n","T","h","i","s"," ","d","e","p","a","r","t","m","e","n","t"," ","s","h","o","u","l","d"," ","t","a","k","e"," ","u","n","a","u","t","h","o","r","i","z","e","d"," ","d","e","b","i","t","s",":"," ","F","r","a","u","d"," ","R","i","s","k"," ","M","a","n","a","g","e","m","e","n","t"," ","(","F","R","M",")",".","\n","\n","A"," ","s","t","a","t","e","m","e","n","t"," ","n","o","t"," ","r","e","c","e","i","v","e","d"," ","i","s"," ","f","o","r"," ","t","h","e"," ","A","c","c","o","u","n","t"," ","O","p","e","r","a","t","i","o","n","s"," ","D","e","p","a","r","t","m","e","n","t"," ","d","e","s","k"," ","t","o"," ","h","a","n","d","l","e",".">>

ContentCard ==
    <<"A"," ","c","a","r","d"," ","d","e","c","l","i","n","e","d"," ","o","r"," ","s","w","a","l","l","o","w","e","d"," ","b","y"," ","a","n"," ","A","T","M"," ","i","s"," ","h","a","n","d","l","e","d"," ","b","y"," ","t","h","e"," ","C","a","r","d"," ","O","p","e","r","a","t","i","o","n","s"," ","C","e","n","t","e","r",","," ","w","h","i","c","h"," ","s","h","o","u","l","d"," ","c","o","n","f","i","r","m"," ","t","h","e"," ","c","o","m","p","l","a","i","n","t"," ","w","i","t","h","i","n"," ","4","8"," ","h","o","u","r","s"," ","o","f"," ","r","e","c","e","i","p","t",".">>

ContentShort ==
    <<"S","E","C","T","I","O","N"," ","4","\n","\n","S","e","e"," ","t","h","e"," ","a","p","p","e","n","d","i","x",".">>

Contents == {ContentFraud, ContentCard, ContentShort}

\* the dict {}: every key is absent
EmptyDict ==
    [source_document |-> "ABSENT", section_title |-> "ABSENT", document_type |-> "ABSENT"]

\* metadata.get(key, default)
MetaGet(metadata, key, default) ==
    IF metadata[key] = "ABSENT" THEN default ELSE metadata[key]

\* metadata the ingestion stores with a chunk
Metadata(doc) ==
    [source_document |-> doc, section_title |-> "SECTION", document_type |-> "policy"]

StoredChunks ==
    { [content |-> ContentFraud, metadata |-> Metadata("POL-CCH-001.txt")],
      [content |-> ContentCard,  metadata |-> Metadata("FRM-001.txt")],
      [content |-> ContentShort, metadata |-> Metadata("POL-CCH-001.txt")] }

\* cosine distances the index may report, in 1/10000
Distances == {2000, 5000, 5600, 12000}

Hits == [chunk : StoredChunks, distance : Distances]

\* results of collection.query with exactly n hits, nearest first
RankingsOfLength(n) ==
    { r \in [1..n -> Hits] :
        /\ \A i, j \in 1..n : i < j => r[i].distance <= r[j].distance
        /\ \A i, j \in 1..n : i # j => r[i].chunk # r[j].chunk }

\* what a call into the index does: it raises, or it returns at most
\* `most` hits
IndexOutcomes(most) ==
    {[called |-> TRUE, raises |-> TRUE, hits |-> <<>>]}
        \cup {[called |-> TRUE, raises |-> FALSE, hits |-> <<>> \o r] :
                 r \in UNION {RankingsOfLength(n) : n \in 0..most}}

-----------------------------------------------------------------------------
(* RAGQueryEngine.query and its helpers *)

\* RELEVANCE_THRESHOLD = 0.5, in 1/10000
RELEVANCE_THRESHOLD == 5000

\* round(x, 3) of the fraction num/den given in 1/10000: the nearest
\* 1/1000, ties to even
Round3(num, den) ==
    LET d == 10 * den
        q == num \div d
        r == num % d
    IN  IF 2 * r < d THEN q
        ELSE IF 2 * r > d THEN q + 1
        ELSE IF q % 2 = 0 THEN q ELSE q + 1

\* _process_retrieval_results: one chunk dict per returned document
process_retrieval_results(hits, include_metadata) ==
    [i \in 1..Len(hits) |->
        [content |-> hits[i].chunk.content,
         metadata |-> IF include_metadata THEN hits[i].chunk.metadata ELSE EmptyDict,
         distance |-> hits[i].distance,
         similarity |-> 10000 - hits[i].distance]]

\* variant of _error_response with an empty string for the answer
error_response_EmptyAnswer(message, question) ==
    [kind |-> "query",
     answer |-> <<>>,
     sources |-> <<>>,
     confidence |-> 0,
     grounded |-> FALSE,
     message |-> message,
     question |-> question,
     retrieved_chunks |-> 0]

\* _error_response
error_response(message, question) ==
    [kind |-> "query",
     answer |-> NoneValue,
     sources |-> <<>>,
     confidence |-> 0,
     grounded |-> FALSE,
     message |-> message,
     question |-> question,
     retrieved_chunks |-> 0]

RECURSIVE SelectSeq2(_, _)
SelectSeq2(s, keep) ==
    IF s = <<>> THEN <<>>
    ELSE IF keep[1] THEN <<Head(s)>> \o SelectSeq2(Tail(s), Tail(keep))
    ELSE SelectSeq2(Tail(s), Tail(keep))

\* variant of the filter that drops a similarity of exactly the threshold
relevant_Strict(chunk) == chunk.similarity > RELEVANCE_THRESHOLD

\* variant of the filter with the threshold at 0.4
relevant_Loose(chunk) == chunk.similarity >= RELEVANCE_THRESHOLD - 1000

\* Step 5: the relevance test of one chunk
relevant(chunk) == chunk.similarity >= RELEVANCE_THRESHOLD

RECURSIVE Ascending(_)
\* the numbers of a set, smallest first
Ascending(S) ==
    IF S = {} THEN <<>>
    ELSE LET m == CHOOSE x \in S : \A y \in S : x <= y
         IN  <<m>> \o Ascending(S \ {m})

\* str.split() with no argument: the maximal runs of non-whitespace
split_words(s) ==
    LET starts == Ascending({i \in 1..Len(s) :
                               ~IsSpace(s[i]) /\ (i = 1 \/ IsSpace(s[i - 1]))})
        ends == Ascending({i \in 1..Len(s) :
                               ~IsSpace(s[i]) /\ (i = Len(s) \/ IsSpace(s[i + 1]))})
    IN  [k \in 1..Len(starts) |-> SubSeq(s, starts[k], ends[k])]

\* set(s.split())
words_of(s) == LET w == split_words(s) IN {w[k] : k \in 1..Len(w)}

\* the longest answer, in words (line 543)
MAX_ANSWER_WORDS == 500

\* _synthesize_answer, lines 541-545: cut an answer of too many words
truncate(answer) ==
    LET words == split_words(answer)
    IN  IF Len(words) > MAX_ANSWER_WORDS
        THEN join(<<" ">>, SubSeq(words, 1, MAX_ANSWER_WORDS))
                \o <<".",".","."," ","[","A","d","d","i","t","i","o","n","a","l"," ","d","e","t","a","i","l","s"," ","a","v","a","i","l","a","b","l","e"," ","i","n"," ","s","o","u","r","c","e"," ","d","o","c","u","m","e","n","t","s","]">>
        ELSE answer

\* the first element of seq that satisfies the test given as a Boolean sequence
FirstTrue(flags) ==
    IF \E i \in 1..Len(flags) : flags[i]
    THEN CHOOSE i \in 1..Len(flags) : flags[i] /\ \A j \in 1..(i - 1) : ~flags[j]
    ELSE 0

\* _synthesize_answer, lines 493-539: the parts of the answer before joining
answer_parts(question, chunks) ==
    LET most_relevant == chunks[1]
        paragraphs == split(most_relevant.content, <<"\n", "\n">>)
        question_words == words_of(lower(question))
        overlap(para) == Cardinality(question_words \cap words_of(lower(para)))
        cand == {i \in 1..Len(paragraphs) :
                    Len(paragraphs[i]) >= 50 /\ overlap(paragraphs[i]) > 0}
        \* the loop keeps the first paragraph of the greatest overlap
        best == IF cand = {} THEN 0
                ELSE CHOOSE i \in cand :
                        /\ \A j \in cand : overlap(paragraphs[j]) <= overlap(paragraphs[i])
                        /\ \A j \in cand : j < i => overlap(paragraphs[j]) < overlap(paragraphs[i])
        fallback == FirstTrue(<<>> \o [i \in 1..Len(paragraphs) |-> Len(paragraphs[i]) > 100])
        first == IF best # 0 THEN <<strip(paragraphs[best])>>
                 ELSE IF best = 0 /\ fallback # 0 THEN <<strip(paragraphs[fallback])>>
                 ELSE <<>>
        second ==
            IF Len(chunks) > 1
               /\ MetaGet(chunks[2].metadata, "source_document", "None")
                      # MetaGet(most_relevant.metadata, "source_document", "None")
            THEN LET second_paragraphs == split(chunks[2].content, <<"\n", "\n">>)
                     k == FirstTrue(<<>> \o [i \in 1..Len(second_paragraphs) |->
                                        Len(second_paragraphs[i]) > 100])
                 IN  IF k = 0 THEN <<>>
                     ELSE <<<<"\n","\n","A","d","d","i","t","i","o","n","a","l"," ","c","o","n","t","e","x","t",":"," ">> \o strip(second_paragraphs[k])>>
            ELSE <<>>
    IN  first \o second

\* _synthesize_answer
synthesize_answer(question, chunks) ==
    truncate(join(<<"\n", "\n">>, answer_parts(question, chunks)))

\* variant of _prepare_citations that numbers the citations from 0
prepare_citations_ZeroBased(chunks) ==
    [i \in 1..Len(chunks) |->
        [rank |-> i - 1,
         source_document |-> MetaGet(chunks[i].metadata, "source_document", "Unknown"),
         section |-> MetaGet(chunks[i].metadata, "section_title", "N/A"),
         document_type |-> MetaGet(chunks[i].metadata, "document_type", "Unknown"),
         similarity_score |-> Round3(chunks[i].similarity, 1),
         snippet |-> IF Len(chunks[i].content) > 200
                     THEN SubSeq(chunks[i].content, 1, 200) \o <<".",".",".">>
                     ELSE chunks[i].content]]

\* _prepare_citations
prepare_citations(chunks) ==
    [i \in 1..Len(chunks) |->
        [rank |-> i,
         source_document |-> MetaGet(chunks[i].metadata, "source_document", "Unknown"),
         section |-> MetaGet(chunks[i].metadata, "section_title", "N/A"),
         document_type |-> MetaGet(chunks[i].metadata, "document_type", "Unknown"),
         similarity_score |-> Round3(chunks[i].similarity, 1),
         snippet |-> IF Len(chunks[i].content) > 200
                     THEN SubSeq(chunks[i].content, 1, 200) \o <<".",".",".">>
                     ELSE chunks[i].content]]

\* query, lines 348-411, once the collection is selected: `outcome` is what
\* collection.query does
query_collection(question, include_metadata, outcome) ==
    IF outcome.raises
    THEN error_response("Database query failed. Please try again.", question)
    ELSE IF outcome.hits = <<>>
    THEN error_response("No relevant information found in the knowledge base.", question)
    ELSE
      LET retrieved_chunks == process_retrieval_results(outcome.hits, include_metadata)
          relevant_chunks ==
              SelectSeq2(retrieved_chunks,
                         [i \in 1..Len(retrieved_chunks) |-> relevant(retrieved_chunks[i])])
      IN  IF relevant_chunks = <<>>
          THEN error_response(
                 "Found information but relevance is too low to answer confidently.",
                 question)
          ELSE
            LET total == SumSeq(<<>> \o [i \in 1..Len(relevant_chunks) |-> relevant_chunks[i].similarity])
                n == Len(relevant_chunks)
                \* min(avg_similarity, 1.0), as the fraction capped/n
                capped == Min(total, 10000 * n)
            IN  [kind |-> "query",
                 answer |-> synthesize_answer(question, relevant_chunks),
                 sources |-> prepare_citations(relevant_chunks),
                 confidence |-> Round3(capped, n),
                 grounded |-> TRUE,
                 question |-> question,
                 retrieved_chunks |-> n]

\* client.get_collection(name) raises unless the collection exists
get_collection_raises(collection_name, missing) ==
    collection_name \notin Collections \/ collection_name = missing

\* query, lines 340-411.  `missing` is the collection that does not exist
\* at the moment of the call (or NoneValue)
query(question, collection_name, include_metadata, missing, outcome) ==
    IF collection_name # NoneValue /\ collection_name # <<>>
       /\ get_collection_raises(collection_name, missing)
    THEN [kind |-> "raised", exception |-> "get_collection"]
    ELSE query_collection(question, include_metadata, outcome)

-----------------------------------------------------------------------------
(* detect_complaint_category and its helpers *)

EXPECTED_SLA == <<
    <<"TSU", 48>>, <<"COC", 48>>, <<"FRM", 24>>, <<"DCS", 72>>, <<"AOD", 72>>, <<"CLS", 96>> >>

DEPT_NAMES == <<
    <<"TSU", "Transaction Services Unit">>, <<"COC", "Card Operations Center">>,
    <<"FRM", "Fraud Risk Management">>, <<"DCS", "Digital Channels Support">>,
    <<"AOD", "Account Operations Department">>, <<"CLS", "Credit & Loan Services">> >>

\* RAGQueryEngine.DEPARTMENT_MAPPING, in insertion order
DEPARTMENT_MAPPING == <<
    <<<<"T","r","a","n","s","a","c","t","i","o","n"," ","S","e","r","v","i","c","e","s"," ","U","n","i","t">>, "TSU">>, <<<<"T","S","U">>, "TSU">>,
    <<<<"C","a","r","d"," ","O","p","e","r","a","t","i","o","n","s"," ","C","e","n","t","e","r">>, "COC">>, <<<<"C","O","C">>, "COC">>,
    <<<<"F","r","a","u","d"," ","R","i","s","k"," ","M","a","n","a","g","e","m","e","n","t">>, "FRM">>, <<<<"F","R","M">>, "FRM">>,
    <<<<"D","i","g","i","t","a","l"," ","C","h","a","n","n","e","l","s"," ","S","u","p","p","o","r","t">>, "DCS">>, <<<<"D","C","S">>, "DCS">>,
    <<<<"A","c","c","o","u","n","t"," ","O","p","e","r","a","t","i","o","n","s"," ","D","e","p","a","r","t","m","e","n","t">>, "AOD">>, <<<<"A","O","D">>, "AOD">>,
    <<<<"C","r","e","d","i","t"," ","&"," ","L","o","a","n"," ","S","e","r","v","i","c","e","s">>, "CLS">>, <<<<"C","L","S">>, "CLS">> >>

\* variant of extract_department_code that compares without upper()
extract_department_code_CaseSensitive(answer) ==
    LET k == FirstTrue(<<>> \o [i \in 1..Len(DEPARTMENT_MAPPING) |->
                          Contains(answer, DEPARTMENT_MAPPING[i][1])])
    IN  IF k = 0 THEN "UNKNOWN" ELSE DEPARTMENT_MAPPING[k][2]

\* extract_department_code: the first entry whose name occurs in the answer
extract_department_code(answer) ==
    LET answer_upper == upper(answer)
        k == FirstTrue(<<>> \o [i \in 1..Len(DEPARTMENT_MAPPING) |->
                          Contains(answer_upper, upper(DEPARTMENT_MAPPING[i][1]))])
    IN  IF k = 0 THEN "UNKNOWN" ELSE DEPARTMENT_MAPPING[k][2]

\* any(w in text for w in keywords)
AnyIn(keywords, text) == \E w \in keywords : Contains(text, w)

CriticalKeywords == {<<"f","r","a","u","d">>, <<"u","n","a","u","t","h","o","r","i","z","e","d">>, <<"h","a","c","k","e","d">>, <<"s","t","o","l","e","n">>, <<"s","c","a","m">>}

HighKeywords == {<<"d","e","c","l","i","n","e","d">>, <<"s","w","a","l","l","o","w","e","d">>, <<"r","e","t","e","n","t","i","o","n">>, <<"b","l","o","c","k","e","d">>}

HighPhrases == {<<"n","o","t"," ","r","e","c","e","i","v","e","d">>, <<"f","a","i","l","e","d"," ","t","r","a","n","s","f","e","r">>}

LowKeywords == {<<"s","t","a","t","e","m","e","n","t">>, <<"b","a","l","a","n","c","e">>, <<"i","n","q","u","i","r","y">>}

\* variant of _determine_priority that looks at the department last
determine_priority_KeywordsFirst(complaint_text, dept_code) ==
    LET complaint_lower == lower(complaint_text)
    IN  IF AnyIn(CriticalKeywords, complaint_lower) THEN "Critical"
        ELSE IF AnyIn(HighKeywords, complaint_lower) THEN "High"
        ELSE IF AnyIn(HighPhrases, complaint_lower) THEN "High"
        ELSE IF AnyIn(LowKeywords, complaint_lower) THEN "Low"
        ELSE IF dept_code = "FRM" THEN "Critical"
        ELSE "Medium"

\* variant of _determine_priority that does not lower-case the text
determine_priority_NoLower(complaint_text, dept_code) ==
    IF dept_code = "FRM" THEN "Critical"
    ELSE IF AnyIn(CriticalKeywords, complaint_text) THEN "Critical"
    ELSE IF AnyIn(HighKeywords, complaint_text) THEN "High"
    ELSE IF AnyIn(HighPhrases, complaint_text) THEN "High"
    ELSE IF AnyIn(LowKeywords, complaint_text) THEN "Low"
    ELSE "Medium"

\* _determine_priority
determine_priority(complaint_text, dept_code) ==
    LET complaint_lower == lower(complaint_text)
    IN  IF dept_code = "FRM" THEN "Critical"
        ELSE IF AnyIn(CriticalKeywords, complaint_lower) THEN "Critical"
        ELSE IF AnyIn(HighKeywords, complaint_lower) THEN "High"
        ELSE IF AnyIn(HighPhrases, complaint_lower) THEN "High"
        ELSE IF AnyIn(LowKeywords, complaint_lower) THEN "Low"
        ELSE "Medium"

\* the keyword table of _extract_category, in insertion order
CATEGORIES == <<
    <<<<"t","r","a","n","s","a","c","t","i","o","n">>, "transaction_dispute">>, <<<<"t","r","a","n","s","f","e","r">>, "transaction_dispute">>,
    <<<<"c","a","r","d">>, "card_issue">>, <<<<"a","t","m">>, "card_issue">>,
    <<<<"f","r","a","u","d">>, "fraud_security">>, <<<<"u","n","a","u","t","h","o","r","i","z","e","d">>, "fraud_security">>,
    <<<<"a","p","p">>, "digital_banking">>, <<<<"l","o","g","i","n">>, "digital_banking">>,
    <<<<"a","c","c","o","u","n","t">>, "account_services">>, <<<<"s","t","a","t","e","m","e","n","t">>, "account_services">>,
    <<<<"l","o","a","n">>, "credit_services">> >>

\* _extract_category
extract_category(answer) ==
    LET answer_lower == lower(answer)
        k == FirstTrue(<<>> \o [i \in 1..Len(CATEGORIES) |-> Contains(answer_lower, CATEGORIES[i][1])])
    IN  IF k = 0 THEN "general_inquiry" ELSE CATEGORIES[k][2]

\* detect_complaint_category, the steps after the retrieval returned
routing_response(complaint_text, category_result) ==
    IF category_result.kind = "raised" THEN category_result
    ELSE IF ~category_result.grounded
    THEN [kind |-> "routing",
          primary_category |-> "unknown",
          department_code |-> "UNKNOWN",
          department_name |-> "Unknown",
          priority_level |-> "Medium",
          sla_hours |-> DictGet(EXPECTED_SLA, "TSU", 48),
          confidence |-> 0,
          reasoning |-> <<"N","o"," ","r","e","l","e","v","a","n","t"," ","p","o","l","i","c","y"," ","f","o","u","n","d">>,
          sources |-> <<>>]
    ELSE
      LET dept_code == extract_department_code(category_result.answer)
      IN  [kind |-> "routing",
           primary_category |-> extract_category(category_result.answer),
           department_code |-> dept_code,
           department_name |-> DictGet(DEPT_NAMES, dept_code, "Unknown"),
           priority_level |-> determine_priority(complaint_text, dept_code),
           sla_hours |-> DictGet(EXPECTED_SLA, dept_code, 48),
           confidence |-> category_result.confidence,
           reasoning |-> SubSeq(category_result.answer, 1,
                                Min(300, Len(category_result.answer))) \o <<".",".",".">>,
           sources |-> category_result.sources]

\* detect_complaint_category
detect_complaint_category(complaint_text, missing, outcome) ==
    routing_response(complaint_text,
                     query(<<"W","h","i","c","h"," ","d","e","p","a","r","t","m","e","n","t"," ","s","h","o","u","l","d"," ","h","a","n","d","l","e"," ","t","h","i","s"," ","c","o","m","p","l","a","i","n","t",":"," ">> \o complaint_text,
                           COLLECTION_POLICIES, TRUE, missing, outcome))

-----------------------------------------------------------------------------
(* calculate_fraud_risk *)

RECURSIVE IntToStr(_)
\* str(n) for n >= 0
IntToStr(n) ==
    IF n < 10 THEN <<Digits[n + 1]>> ELSE IntToStr(n \div 10) \o <<Digits[(n % 10) + 1]>>

LevelName(level) ==
    CASE level = "LOW" -> <<"L","O","W">>
      [] level = "MEDIUM" -> <<"M","E","D","I","U","M">>
      [] level = "HIGH" -> <<"H","I","G","H">>
      [] level = "CRITICAL" -> <<"C","R","I","T","I","C","A","L">>

\* STEP 7: the retrieval that explains the score
explanation_query(v, missing, outcome) ==
    query(<<"E","x","p","l","a","i","n"," ","t","h","e"," ","f","r","a","u","d"," ","r","i","s","k"," ","a","s","s","e","s","s","m","e","n","t"," ","f","o","r"," ","a"," ">> \o LevelName(v.risk_level)
            \o <<" ","r","i","s","k"," ","s","c","o","r","e"," ","o","f"," ">> \o IntToStr(v.total_risk_score)
            \o <<" ","p","o","i","n","t","s"," ","a","n","d"," ","t","h","e"," ","r","e","c","o","m","m","e","n","d","e","d"," ","a","c","t","i","o","n">>,
          COLLECTION_POLICIES, TRUE, missing, outcome)

\* the return statement
risk_response(v, explanation) ==
    IF explanation.kind = "raised" THEN explanation
    ELSE [kind |-> "risk",
          total_risk_score |-> v.total_risk_score,
          risk_level |-> v.risk_level,
          risk_breakdown |-> v.risk_breakdown,
          recommended_action |-> v.recommended_action,
          requires_challenge |-> v.requires_challenge,
          should_block |-> v.should_block,
          policy_explanation |->
              IF explanation.answer # NoneValue /\ explanation.answer # <<>>
              THEN explanation.answer
              ELSE <<"R","i","s","k"," ","s","c","o","r","e"," ">> \o IntToStr(v.total_risk_score) \o <<"/","1","0","0"," ","-",">"," ">>
                      \o LevelName(v.risk_level) \o <<":"," ">> \o v.recommended_action,
          sources |-> explanation.sources,
          confidence |-> explanation.confidence]

\* calculate_fraud_risk: float() raises before any retrieval
calculate_fraud_risk(transaction, missing, outcome) ==
    IF score_transaction(transaction).kind = "raised" THEN score_transaction(transaction)
    ELSE risk_response(score_transaction(transaction).verdict,
                       explanation_query(score_transaction(transaction).verdict,
                                         missing, outcome))

-----------------------------------------------------------------------------
(* validate_product_recommendation *)

\* the thresholds validate_product_recommendation reads; the signal score is
\* in 1/100
PRODUCT_THRESHOLDS ==
    [investment_plan_monthly_inflow_min |-> 2000000,
     car_loan_signal_score_min |-> 70,
     personal_loan_monthly_inflow_min |-> 300000]

\* the three digits of n < 1000
ThreeDigits(n) ==
    <<Digits[(n \div 100) + 1], Digits[((n \div 10) % 10) + 1], Digits[(n % 10) + 1]>>

RECURSIVE Grouped(_)
\* format(n, ',.0f') for a whole n >= 0
Grouped(n) ==
    IF n < 1000 THEN IntToStr(n)
    ELSE Grouped(n \div 1000) \o <<",">> \o ThreeDigits(n % 1000)

\* the naira sign followed by the grouped amount
Naira(n) == <<"N">> \o Grouped(n)

\* format(s, '.2f') for a score s in 1/100
TwoDecimals(s) ==
    IntToStr(s \div 100) \o <<".">> \o <<Digits[((s \div 10) % 10) + 1], Digits[(s % 10) + 1]>>

\* the criteria of Investment Plan: hierarchy step 1
investment_plan_criteria(monthly_inflow) ==
    LET inv_min == PRODUCT_THRESHOLDS.investment_plan_monthly_inflow_min
    IN  IF monthly_inflow > inv_min
        THEN [met |-> <<<<"M","o","n","t","h","l","y"," ","i","n","f","l","o","w"," ">> \o Naira(monthly_inflow) \o <<" ",">"," ","t","h","r","e","s","h","o","l","d"," ">>
                          \o Naira(inv_min)>>,
              unmet |-> <<>>]
        ELSE [met |-> <<>>,
              unmet |-> <<<<"M","o","n","t","h","l","y"," ","i","n","f","l","o","w"," ">> \o Naira(monthly_inflow) \o <<" ","<","="," ">>
                            \o Naira(inv_min) \o <<" ","(","g","a","p",":"," ">>
                            \o Naira(inv_min - monthly_inflow) \o <<")">>>>]

\* variant of the Car Loan criteria without the step 1 check
car_loan_criteria_NoOverride(monthly_inflow, salary_detected, car_loan_score) ==
    LET inv_min == PRODUCT_THRESHOLDS.investment_plan_monthly_inflow_min
        cl_score == PRODUCT_THRESHOLDS.car_loan_signal_score_min
        override ==
            IF monthly_inflow > inv_min
            THEN <<<<"M","o","n","t","h","l","y"," ","i","n","f","l","o","w"," ">> \o Naira(monthly_inflow) \o <<" ",">"," ">> \o Naira(inv_min)
                     \o <<" ","-",">"," ","I","n","v","e","s","t","m","e","n","t"," ","P","l","a","n"," ","s","h","o","u","l","d"," ","t","a","k","e"," ","p","r","i","o","r","i","t","y">>>>
            ELSE <<>>
        score_met ==
            IF car_loan_score >= cl_score
            THEN <<<<"c","a","r","_","l","o","a","n","_","s","i","g","n","a","l","_","s","c","o","r","e"," ">> \o TwoDecimals(car_loan_score)
                     \o <<" ",">","="," ","t","h","r","e","s","h","o","l","d"," ","0",".","7">>>>
            ELSE <<>>
        score_unmet ==
            IF car_loan_score >= cl_score THEN <<>>
            ELSE <<<<"c","a","r","_","l","o","a","n","_","s","i","g","n","a","l","_","s","c","o","r","e"," ">> \o TwoDecimals(car_loan_score)
                     \o <<" ","<"," ","t","h","r","e","s","h","o","l","d"," ","0",".","7"," ","(","g","a","p",":"," ">>
                     \o TwoDecimals(cl_score - car_loan_score) \o <<")">>>>
        salary_met ==
            IF salary_detected THEN <<<<"S","a","l","a","r","y"," ","d","e","t","e","c","t","e","d"," ","(","2","+"," ","f","i","n","t","e","c","h"," ","c","r","e","d","i","t","s"," ",">"," ","N","2","0","0","K",")">>>>
            ELSE <<>>
    IN  [met |-> score_met \o salary_met, unmet |-> score_unmet]

\* the criteria of Car Loan: hierarchy step 2
car_loan_criteria(monthly_inflow, salary_detected, car_loan_score) ==
    LET inv_min == PRODUCT_THRESHOLDS.investment_plan_monthly_inflow_min
        cl_score == PRODUCT_THRESHOLDS.car_loan_signal_score_min
        override ==
            IF monthly_inflow > inv_min
            THEN <<<<"M","o","n","t","h","l","y"," ","i","n","f","l","o","w"," ">> \o Naira(monthly_inflow) \o <<" ",">"," ">> \o Naira(inv_min)
                     \o <<" ","-",">"," ","I","n","v","e","s","t","m","e","n","t"," ","P","l","a","n"," ","s","h","o","u","l","d"," ","t","a","k","e"," ","p","r","i","o","r","i","t","y">>>>
            ELSE <<>>
        score_met ==
            IF car_loan_score >= cl_score
            THEN <<<<"c","a","r","_","l","o","a","n","_","s","i","g","n","a","l","_","s","c","o","r","e"," ">> \o TwoDecimals(car_loan_score)
                     \o <<" ",">","="," ","t","h","r","e","s","h","o","l","d"," ","0",".","7">>>>
            ELSE <<>>
        score_unmet ==
            IF car_loan_score >= cl_score THEN <<>>
            ELSE <<<<"c","a","r","_","l","o","a","n","_","s","i","g","n","a","l","_","s","c","o","r","e"," ">> \o TwoDecimals(car_loan_score)
                     \o <<" ","<"," ","t","h","r","e","s","h","o","l","d"," ","0",".","7"," ","(","g","a","p",":"," ">>
                     \o TwoDecimals(cl_score - car_loan_score) \o <<")">>>>
        salary_met ==
            IF salary_detected THEN <<<<"S","a","l","a","r","y"," ","d","e","t","e","c","t","e","d"," ","(","2","+"," ","f","i","n","t","e","c","h"," ","c","r","e","d","i","t","s"," ",">"," ","N","2","0","0","K",")">>>>
            ELSE <<>>
    IN  [met |-> score_met \o salary_met, unmet |-> override \o score_unmet]

\* variant of the Personal Loan criteria where the salary is informational
personal_loan_criteria_OptionalSalary(monthly_inflow, salary_detected, car_loan_score) ==
    LET inv_min == PRODUCT_THRESHOLDS.investment_plan_monthly_inflow_min
        cl_score == PRODUCT_THRESHOLDS.car_loan_signal_score_min
        pl_min == PRODUCT_THRESHOLDS.personal_loan_monthly_inflow_min
        override1 ==
            IF monthly_inflow > inv_min
            THEN <<<<"M","o","n","t","h","l","y"," ","i","n","f","l","o","w"," ",">"," ">> \o Naira(inv_min) \o <<" ","-",">"," ","I","n","v","e","s","t","m","e","n","t"," ","P","l","a","n"," ","p","r","i","o","r","i","t","y">>>>
            ELSE <<>>
        override2 ==
            IF car_loan_score >= cl_score
            THEN <<<<"c","a","r","_","l","o","a","n","_","s","i","g","n","a","l","_","s","c","o","r","e"," ",">","="," ","0",".","7"," ","-",">"," ","C","a","r"," ","L","o","a","n"," ","p","r","i","o","r","i","t","y">>>>
            ELSE <<>>
        salary_met == IF salary_detected THEN <<<<"S","a","l","a","r","y"," ","d","e","t","e","c","t","e","d">>>> ELSE <<>>
        salary_unmet == IF salary_detected THEN <<>> ELSE <<<<"s","a","l","a","r","y","_","d","e","t","e","c","t","e","d"," ","="," ","F","a","l","s","e">>>>
        inflow_met ==
            IF monthly_inflow > pl_min
            THEN <<<<"M","o","n","t","h","l","y"," ","i","n","f","l","o","w"," ">> \o Naira(monthly_inflow) \o <<" ",">"," ">> \o Naira(pl_min)>>
            ELSE <<>>
        inflow_unmet ==
            IF monthly_inflow > pl_min THEN <<>>
            ELSE <<<<"M","o","n","t","h","l","y"," ","i","n","f","l","o","w"," ">> \o Naira(monthly_inflow) \o <<" ","<","="," ">> \o Naira(pl_min)
                     \o <<" ","(","g","a","p",":"," ">> \o Naira(pl_min - monthly_inflow) \o <<")">>>>
    IN  [met |-> salary_met \o inflow_met,
         unmet |-> override1 \o override2 \o inflow_unmet]

\* variant of the criteria of Personal Loan without the Car Loan override
personal_loan_criteria_AnyScore(monthly_inflow, salary_detected, car_loan_score) ==
    LET inv_min == PRODUCT_THRESHOLDS.investment_plan_monthly_inflow_min
        pl_min == PRODUCT_THRESHOLDS.personal_loan_monthly_inflow_min
        override1 ==
            IF monthly_inflow > inv_min
            THEN <<<<"M","o","n","t","h","l","y"," ","i","n","f","l","o","w"," ",">"," ">> \o Naira(inv_min) \o <<" ","-",">"," ","I","n","v","e","s","t","m","e","n","t"," ","P","l","a","n"," ","p","r","i","o","r","i","t","y">>>>
            ELSE <<>>
        override2 == <<>>
        salary_met == IF salary_detected THEN <<<<"S","a","l","a","r","y"," ","d","e","t","e","c","t","e","d">>>> ELSE <<>>
        salary_unmet == IF salary_detected THEN <<>> ELSE <<<<"s","a","l","a","r","y","_","d","e","t","e","c","t","e","d"," ","="," ","F","a","l","s","e">>>>
        inflow_met ==
            IF monthly_inflow > pl_min
            THEN <<<<"M","o","n","t","h","l","y"," ","i","n","f","l","o","w"," ">> \o Naira(monthly_inflow) \o <<" ",">"," ">> \o Naira(pl_min)>>
            ELSE <<>>
        inflow_unmet ==
            IF monthly_inflow > pl_min THEN <<>>
            ELSE <<<<"M","o","n","t","h","l","y"," ","i","n","f","l","o","w"," ">> \o Naira(monthly_inflow) \o <<" ","<","="," ">> \o Naira(pl_min)
                     \o <<" ","(","g","a","p",":"," ">> \o Naira(pl_min - monthly_inflow) \o <<")">>>>
    IN  [met |-> salary_met \o inflow_met,
         unmet |-> override1 \o override2 \o salary_unmet \o inflow_unmet]

\* the criteria of Personal Loan: hierarchy step 3
personal_loan_criteria(monthly_inflow, salary_detected, car_loan_score) ==
    LET inv_min == PRODUCT_THRESHOLDS.investment_plan_monthly_inflow_min
        cl_score == PRODUCT_THRESHOLDS.car_loan_signal_score_min
        pl_min == PRODUCT_THRESHOLDS.personal_loan_monthly_inflow_min
        override1 ==
            IF monthly_inflow > inv_min
            THEN <<<<"M","o","n","t","h","l","y"," ","i","n","f","l","o","w"," ",">"," ">> \o Naira(inv_min) \o <<" ","-",">"," ","I","n","v","e","s","t","m","e","n","t"," ","P","l","a","n"," ","p","r","i","o","r","i","t","y">>>>
            ELSE <<>>
        override2 ==
            IF car_loan_score >= cl_score
            THEN <<<<"c","a","r","_","l","o","a","n","_","s","i","g","n","a","l","_","s","c","o","r","e"," ",">","="," ","0",".","7"," ","-",">"," ","C","a","r"," ","L","o","a","n"," ","p","r","i","o","r","i","t","y">>>>
            ELSE <<>>
        salary_met == IF salary_detected THEN <<<<"S","a","l","a","r","y"," ","d","e","t","e","c","t","e","d">>>> ELSE <<>>
        salary_unmet == IF salary_detected THEN <<>> ELSE <<<<"s","a","l","a","r","y","_","d","e","t","e","c","t","e","d"," ","="," ","F","a","l","s","e">>>>
        inflow_met ==
            IF monthly_inflow > pl_min
            THEN <<<<"M","o","n","t","h","l","y"," ","i","n","f","l","o","w"," ">> \o Naira(monthly_inflow) \o <<" ",">"," ">> \o Naira(pl_min)>>
            ELSE <<>>
        inflow_unmet ==
            IF monthly_inflow > pl_min THEN <<>>
            ELSE <<<<"M","o","n","t","h","l","y"," ","i","n","f","l","o","w"," ">> \o Naira(monthly_inflow) \o <<" ","<","="," ">> \o Naira(pl_min)
                     \o <<" ","(","g","a","p",":"," ">> \o Naira(pl_min - monthly_inflow) \o <<")">>>>
    IN  [met |-> salary_met \o inflow_met,
         unmet |-> override1 \o override2 \o salary_unmet \o inflow_unmet]

\* variant of the result for an ungrounded policy query that gives no reason
cannot_validate_NoReason ==
    [kind |-> "eligibility",
     is_eligible |-> FALSE,
     confidence |-> 0,
     met_criteria |-> <<>>,
     unmet_criteria |-> <<>>,
     recommendation |-> "CANNOT_VALIDATE",
     policy_basis |-> <<"N","o"," ","p","o","l","i","c","y"," ","a","v","a","i","l","a","b","l","e">>,
     sources |-> <<>>,
     hierarchy_step |-> 0]

\* lines 1111-1121: the result when the policy query is not grounded
cannot_validate ==
    [kind |-> "eligibility",
     is_eligible |-> FALSE,
     confidence |-> 0,
     met_criteria |-> <<>>,
     unmet_criteria |-> <<<<"N","o"," ","p","o","l","i","c","y"," ","f","o","u","n","d"," ","i","n"," ","k","n","o","w","l","e","d","g","e"," ","b","a","s","e">>>>,
     recommendation |-> "CANNOT_VALIDATE",
     policy_basis |-> <<"N","o"," ","p","o","l","i","c","y"," ","a","v","a","i","l","a","b","l","e">>,
     sources |-> <<>>,
     hierarchy_step |-> 0]

\* lines 1140-1207: hierarchy step, met and unmet criteria of the product
product_criteria(customer_data, recommended_product) ==
    LET monthly_inflow == Float(customer_data.monthly_inflow)
        salary_detected == customer_data.salary_detected
        car_loan_score == Float(customer_data.car_loan_signal_score)
    IN  IF recommended_product = <<"I","n","v","e","s","t","m","e","n","t"," ","P","l","a","n">>
        THEN [hierarchy_step |-> 1, criteria |-> investment_plan_criteria(monthly_inflow)]
        ELSE IF recommended_product = <<"C","a","r"," ","L","o","a","n">>
        THEN [hierarchy_step |-> 2,
              criteria |-> car_loan_criteria(monthly_inflow, salary_detected, car_loan_score)]
        ELSE IF recommended_product = <<"P","e","r","s","o","n","a","l"," ","L","o","a","n">>
        THEN [hierarchy_step |-> 3,
              criteria |-> personal_loan_criteria(monthly_inflow, salary_detected,
                                                  car_loan_score)]
        ELSE [hierarchy_step |-> 0,
              criteria |-> [met |-> <<>>,
                            unmet |-> <<<<"U","n","k","n","o","w","n"," ","p","r","o","d","u","c","t"," ","\"">> \o recommended_product
                                          \o <<"\"">>>>]]

\* validate_product_recommendation
eligibility_response(customer_data, recommended_product, policy_result) ==
    IF policy_result.kind = "raised" THEN policy_result
    ELSE IF ~policy_result.grounded THEN cannot_validate
    ELSE IF FloatRaises(customer_data.monthly_inflow)
            \/ FloatRaises(customer_data.car_loan_signal_score)
    THEN [kind |-> "raised", exception |-> "float"]
    ELSE IF FloatRaises(customer_data.age)
    THEN [kind |-> "raised", exception |-> "int"]
    ELSE
      LET evaluated == product_criteria(customer_data, recommended_product)
          is_eligible == Len(evaluated.criteria.unmet) = 0
      IN  [kind |-> "eligibility",
           is_eligible |-> is_eligible,
           confidence |-> policy_result.confidence,
           met_criteria |-> evaluated.criteria.met,
           unmet_criteria |-> evaluated.criteria.unmet,
           recommendation |-> IF is_eligible THEN "APPROVED" ELSE "NOT_ELIGIBLE",
           policy_basis |-> policy_result.answer,
           sources |-> policy_result.sources,
           hierarchy_step |-> evaluated.hierarchy_step]

validate_product_recommendation(customer_data, recommended_product, missing, outcome) ==
    eligibility_response(customer_data, recommended_product,
                         query(<<"W","h","a","t"," ","a","r","e"," ","t","h","e"," ","e","l","i","g","i","b","i","l","i","t","y"," ","c","r","i","t","e","r","i","a"," ","f","o","r"," ">> \o recommended_product
                                 \o <<" ","p","e","r"," ","P","R","S","-","0","0","1"," ","p","r","o","d","u","c","t"," ","r","e","c","o","m","m","e","n","d","a","t","i","o","n"," ","p","o","l","i","c","y","?">>,
                               COLLECTION_POLICIES, TRUE, missing, outcome))

-----------------------------------------------------------------------------
(* DocumentChunker, ingest_documents.py.  A text is the sequence of its
   items: a sentence of len characters, or a separator line (fifty or more
   '=' or '-' between newlines).  Inside a section two neighbouring
   sentences are one whitespace character apart.  A sentence is named by
   its position in the text, and the content of a chunk is the sequence of
   the sentences it holds. *)

MAX_CHUNK_SIZE == 1000

Sentence(n) == [kind |-> "sentence", len |-> n]

Separator == [kind |-> "separator", len |-> 0]

RECURSIVE SumLen(_, _)
\* sum(len(s) for s in sentences)
SumLen(text, sentences) ==
    IF sentences = <<>> THEN 0
    ELSE text[Head(sentences)].len + SumLen(text, Tail(sentences))

\* len(' '.join(sentences)), and len of a stripped run of sentences
JoinedLen(text, sentences) ==
    IF sentences = <<>> THEN 0 ELSE SumLen(text, sentences) + Len(sentences) - 1

\* re.split(r'\n={50,}\n|\n-{50,}\n', text): the runs of sentences between
\* separators, the empty runs included
split_sections(text) ==
    LET seps   == Ascending({i \in 1..Len(text) : text[i].kind = "separator"})
        bounds == <<0>> \o seps \o <<Len(text) + 1>>
    IN  [k \in 1..(Len(seps) + 1) |->
            [j \in 1..(bounds[k + 1] - bounds[k] - 1) |-> bounds[k] + j]]

\* a split that carries no sentence over
overlap_sentences_None(current_chunk) == <<>>

\* current_chunk[-2:] if len(current_chunk) > 2 else current_chunk
overlap_sentences(current_chunk) ==
    IF Len(current_chunk) > 2
    THEN SubSeq(current_chunk, Len(current_chunk) - 1, Len(current_chunk))
    ELSE current_chunk

RECURSIVE SplitFrom(_, _, _, _, _)
\* the loop of _split_large_section over the sentences still to come
SplitFrom(text, sentences, chunks, current_chunk, current_size) ==
    IF sentences = <<>>
    THEN IF current_chunk # <<>> THEN Append(chunks, current_chunk) ELSE chunks
    ELSE LET sentence      == Head(sentences)
             sentence_size == text[sentence].len
         IN  IF current_size + sentence_size > MAX_CHUNK_SIZE /\ current_chunk # <<>>
             THEN LET next_chunk == Append(overlap_sentences(current_chunk), sentence)
                  IN  SplitFrom(text, Tail(sentences), Append(chunks, current_chunk),
                                next_chunk, SumLen(text, next_chunk))
             ELSE SplitFrom(text, Tail(sentences), chunks,
                            Append(current_chunk, sentence), current_size + sentence_size)

\* a split that stops before the last sentence of the section
split_large_section_WithoutLast(text, section) ==
    SplitFrom(text, SubSeq(section, 1, Len(section) - 1), <<>>, <<>>, 0)

\* DocumentChunker._split_large_section(section, section_title)
split_large_section(text, section) == SplitFrom(text, section, <<>>, <<>>, 0)

\* f"{document_id}_sec{idx}"
section_chunk_id(document_id, idx) == document_id \o <<"_","s","e","c">> \o IntToStr(idx)

\* a chunk_id without the sub-chunk ordinal
sub_chunk_id_NoSubOrdinal(document_id, idx, sub_idx) == section_chunk_id(document_id, idx)

\* f"{document_id}_sec{idx}_sub{sub_idx}"
sub_chunk_id(document_id, idx, sub_idx) ==
    section_chunk_id(document_id, idx) \o <<"_","s","u","b">> \o IntToStr(sub_idx)

\* lines[0].strip(): the first line of a section, named by the sentence it opens
section_title(section) == Head(section)

RECURSIVE AppendSubChunks(_, _, _, _, _, _)
\* for sub_idx, sub_chunk in enumerate(sub_chunks): chunks.append(...)
AppendSubChunks(chunks, sub_chunks, sub_idx, document_id, idx, title) ==
    IF sub_idx >= Len(sub_chunks) THEN chunks
    ELSE AppendSubChunks(
             Append(chunks, [chunk_id      |-> sub_chunk_id(document_id, idx, sub_idx),
                             content       |-> sub_chunks[sub_idx + 1],
                             section_title |-> title,
                             chunk_index   |-> Len(chunks)]),
             sub_chunks, sub_idx + 1, document_id, idx, title)

RECURSIVE ChunkFrom(_, _, _, _, _)
\* the loop of chunk_by_sections over the sections from number idx on
ChunkFrom(text, document_id, sections, idx, chunks) ==
    IF idx >= Len(sections) THEN chunks
    ELSE LET section == sections[idx + 1]
         IN  IF section = <<>> \/ JoinedLen(text, section) < 50
             THEN ChunkFrom(text, document_id, sections, idx + 1, chunks)
             ELSE IF JoinedLen(text, section) > MAX_CHUNK_SIZE
             THEN ChunkFrom(text, document_id, sections, idx + 1,
                            AppendSubChunks(chunks, split_large_section(text, section), 0,
                                            document_id, idx, section_title(section)))
             ELSE ChunkFrom(text, document_id, sections, idx + 1,
                            Append(chunks, [chunk_id      |-> section_chunk_id(document_id, idx),
                                            content       |-> section,
                                            section_title |-> section_title(section),
                                            chunk_index   |-> Len(chunks)]))

\* DocumentChunker.chunk_by_sections(text, document_id)
chunk_by_sections(text, document_id) ==
    ChunkFrom(text, document_id, split_sections(text), 0, <<>>)

-----------------------------------------------------------------------------
(* Inputs of the calls *)

RECURSIVE SeqsUpTo(_, _)
\* the sequences over S of length at most n
SeqsUpTo(S, n) ==
    IF n = 0 THEN {<<>>}
    ELSE LET shorter == SeqsUpTo(S, n - 1)
         IN  shorter \cup {Append(s, x) : s \in shorter, x \in S}

FlagTokens ==
    {<<"m","o","b","i","l","e","_","c","h","a","n","n","e","l","_","r","i","s","k">>, <<" ","h","i","g","h","_","a","m","o","u","n","t","_","s","p","i","k","e"," ">>, <<"m","u","l","t","i","p","l","e","_","f","a","i","l","u","r","e","s">>, <<"n","e","w","_","f","l","a","g">>}

Traces == {Absent} \cup {join(<<",">>, s) : s \in SeqsUpTo(FlagTokens, MaxFlags)}

Merchants == {<<" ","F","i","n","t","e","c","h">>, <<"s","u","p","e","r","m","a","r","k","e","t">>, <<"c","r","y","p","t","o">>}

Timestamps ==
    {Absent, <<"2","0","2","4","-","0","1","-","1","5"," ","0","2",":","3","0",":","0","0">>, <<"2","0","2","4","-","0","1","-","1","5","T","0","4",":","5","9">>, <<"2","0","2","4","-","0","1","-","1","5"," ","0","5",":","0","0",":","0","0">>,
     <<"1","5","/","0","1","/","2","0","2","4">>}

\* amounts: numbers on both sides of the high-value threshold, the key
\* missing, None, and a text that is no number
Amounts == {[kind |-> "number", val |-> 99999], [kind |-> "number", val |-> 100000],
            [kind |-> "absent", val |-> 0], [kind |-> "none", val |-> 0],
            [kind |-> "text", val |-> 0]}

Transactions ==
    [fraud_explainability_trace : Traces, merchant_category : Merchants,
     transaction_timestamp : Timestamps, amount : Amounts]

\* the transactions handed to the whole handler, retrieval included
HandlerTransactions ==
    [fraud_explainability_trace :
        {Absent} \cup {join(<<",">>, s) : s \in SeqsUpTo(FlagTokens, MaxHandlerFlags)},
     merchant_category : Merchants,
     transaction_timestamp : {<<"2","0","2","4","-","0","1","-","1","5"," ","0","2",":","3","0",":","0","0">>}, amount : Amounts]

\* fragments of complaint texts
ComplaintWords ==
    {<<"H","A","C","K","E","D">>, <<"d","e","c","l","i","n","e","d">>, <<"n","o","t"," ","r","e","c","e","i","v","e","d">>, <<"s","t","a","t","e","m","e","n","t">>, <<"c","a","r","d">>}

ComplaintTexts == {join(<<" ">>, s) : s \in SeqsUpTo(ComplaintWords, MaxComplaintWords)}

Questions == {<<"w","h","o"," ","h","a","n","d","l","e","s"," ","f","r","a","u","d">>, <<"l","o","a","n"," ","r","a","t","e","s">>}

CollectionNames == {NoneValue, COLLECTION_POLICIES, <<"a","r","c","h","i","v","e">>}

\* customers: inflows on both sides of the two thresholds, signal scores on
\* both sides of 0.7 (in 1/100), and one whose inflow is None
Customers ==
    [monthly_inflow : {[kind |-> "number", val |-> 300000],
                       [kind |-> "number", val |-> 300001],
                       [kind |-> "number", val |-> 2000000],
                       [kind |-> "number", val |-> 2000001],
                       [kind |-> "none", val |-> 0]},
     salary_detected : BOOLEAN,
     car_loan_signal_score : {[kind |-> "number", val |-> 69],
                              [kind |-> "number", val |-> 70]},
     age : {[kind |-> "number", val |-> 28], [kind |-> "absent", val |-> 0]}]

Products == {<<"I","n","v","e","s","t","m","e","n","t"," ","P","l","a","n">>, <<"C","a","r"," ","L","o","a","n">>, <<"P","e","r","s","o","n","a","l"," ","L","o","a","n">>, <<"G","o","l","d"," ","C","a","r","d">>}

\* the index was not reached
NotCalled == [called |-> FALSE, raises |-> FALSE, hits |-> <<>>]

\* the outcomes of a search for top_k passages
QueryOutcomes == [top_k \in 1..MaxPassages |-> IndexOutcomes(top_k)]

\* the outcomes of the searches of the agent methods
AgentOutcomes == IndexOutcomes(MaxAgentPassages)

\* get_collection raises for a call that names collection_name
Unresolved(collection_name, missing) ==
    /\ collection_name # NoneValue
    /\ collection_name # <<>>
    /\ get_collection_raises(collection_name, missing)

-----------------------------------------------------------------------------
(* The state machine *)

NoCall == [op |-> "none"]

NoResult == [kind |-> "none"]

Init ==
    /\ resetting = NoneValue
    /\ pc = "idle"
    /\ call = NoCall
    /\ result = NoResult

\* ChromaDBConfig.reset_collection, lines 239-243: the collection is deleted
ResetDelete(name) ==
    /\ pc = "idle"
    /\ resetting = NoneValue
    /\ resetting' = name
    /\ UNCHANGED <<pc, call, result>>

\* ChromaDBConfig.reset_collection, lines 245-247: the collection is recreated
ResetCreate ==
    /\ pc = "idle"
    /\ resetting # NoneValue
    /\ resetting' = NoneValue
    /\ UNCHANGED <<pc, call, result>>

\* await engine.query(question, collection_name, top_k, include_metadata)
Query(question, collection_name, top_k, include_metadata, outcome) ==
    /\ pc = "idle"
    /\ pc' = "done"
    /\ call' = [op |-> "query", question |-> question, collection_name |-> collection_name,
                top_k |-> top_k, include_metadata |-> include_metadata, outcome |-> outcome]
    /\ result' = query(question, collection_name, include_metadata, resetting, outcome)
    /\ UNCHANGED resetting

\* await engine.calculate_fraud_risk(transaction)
CalculateFraudRisk(transaction, outcome) ==
    /\ pc = "idle"
    /\ pc' = "done"
    /\ call' = [op |-> "calculate_fraud_risk", transaction |-> transaction,
                outcome |-> outcome]
    /\ result' = calculate_fraud_risk(transaction, resetting, outcome)
    /\ UNCHANGED resetting

\* await engine.detect_complaint_category(complaint_text)
DetectComplaintCategory(complaint_text, outcome) ==
    /\ pc = "idle"
    /\ pc' = "done"
    /\ call' = [op |-> "detect_complaint_category", complaint_text |-> complaint_text,
                outcome |-> outcome]
    /\ result' = detect_complaint_category(complaint_text, resetting, outcome)
    /\ UNCHANGED resetting

\* await engine.validate_product_recommendation(customer_data, recommended_product)
ValidateProductRecommendation(customer_data, recommended_product, outcome) ==
    /\ pc = "idle"
    /\ pc' = "done"
    /\ call' = [op |-> "validate_product_recommendation", customer_data |-> customer_data,
                recommended_product |-> recommended_product, outcome |-> outcome]
    /\ result' = validate_product_recommendation(customer_data, recommended_product,
                                                  resetting, outcome)
    /\ UNCHANGED resetting

\* the caller takes the result
Return ==
    /\ pc = "done"
    /\ pc' = "idle"
    /\ call' = NoCall
    /\ result' = NoResult
    /\ UNCHANGED resetting

Reset == ResetCreate \/ \E name \in Collections : ResetDelete(name)

QueryCalls ==
    /\ pc = "idle"
    /\ \E question \in Questions, collection_name \in CollectionNames,
       top_k \in 1..MaxPassages, include_metadata \in BOOLEAN :
        \E outcome \in (IF Unresolved(collection_name, resetting) THEN {NotCalled}
                        ELSE QueryOutcomes[top_k]) :
            Query(question, collection_name, top_k, include_metadata, outcome)

FraudCalls ==
    /\ pc = "idle"
    /\ \E transaction \in HandlerTransactions :
        \E outcome \in (IF FloatRaises(transaction.amount)
                           \/ Unresolved(COLLECTION_POLICIES, resetting)
                        THEN {NotCalled} ELSE AgentOutcomes) :
            CalculateFraudRisk(transaction, outcome)

RoutingCalls ==
    /\ pc = "idle"
    /\ \E complaint_text \in ComplaintTexts :
        \E outcome \in (IF Unresolved(COLLECTION_POLICIES, resetting)
                        THEN {NotCalled} ELSE AgentOutcomes) :
            DetectComplaintCategory(complaint_text, outcome)

EligibilityCalls ==
    /\ pc = "idle"
    /\ \E customer_data \in Customers, recommended_product \in Products :
        \E outcome \in (IF Unresolved(COLLECTION_POLICIES, resetting)
                        THEN {NotCalled} ELSE AgentOutcomes) :
            ValidateProductRecommendation(customer_data, recommended_product, outcome)

Next == Reset \/ QueryCalls \/ FraudCalls \/ RoutingCalls \/ EligibilityCalls \/ Return

Spec == Init /\ [][Next]_vars

\* a transaction waits to be scored
InitScoring ==
    /\ resetting = NoneValue
    /\ pc = "scoring"
    /\ call \in {[op |-> "score", transaction |-> t] : t \in Transactions}
    /\ result = NoResult

\* calculate_fraud_risk up to the retrieval: steps 1 to 6
ScoreTransaction ==
    /\ pc = "scoring"
    /\ pc' = "scored"
    /\ result' = score_transaction(call.transaction)
    /\ UNCHANGED <<resetting, call>>

\* the scoring steps alone, on every transaction
ScoringSpec == InitScoring /\ [][ScoreTransaction]_vars

NextQuery == Reset \/ QueryCalls \/ Return

\* the retrieval engine alone
QuerySpec == Init /\ [][NextQuery]_vars

NextFraud == Reset \/ FraudCalls \/ Return

\* the fraud risk scorer alone
FraudSpec == Init /\ [][NextFraud]_vars

NextRouting == Reset \/ RoutingCalls \/ Return

\* the complaint router alone
RoutingSpec == Init /\ [][NextRouting]_vars

NextEligibility == Reset \/ EligibilityCalls \/ Return

\* the product eligibility validator alone
EligibilitySpec == Init /\ [][NextEligibility]_vars

-----------------------------------------------------------------------------
(* The chunker of the ingestion pipeline *)

\* the items of a text: a short sentence, two that fill a chunk together,
\* one that is oversized alone, and a separator line
TextItems == {Sentence(30), Sentence(400), Sentence(600), Sentence(1001), Separator}

RECURSIVE TextsOfLen(_)
TextsOfLen(n) ==
    IF n = 0 THEN {<<>>}
    ELSE {Append(t, i) : t \in TextsOfLen(n - 1), i \in TextItems}

Texts == UNION {TextsOfLen(n) : n \in 0..MaxTextItems}

DocumentIds == {<<"F","R","M","-","0","0","1">>, <<"P","R","S">>}

ChunkCalls ==
    {[op |-> "chunk_by_sections", text |-> t, document_id |-> d, previous |-> <<>>] :
        t \in Texts, d \in DocumentIds}

\* a text waits to be chunked
InitChunking ==
    /\ resetting = NoneValue
    /\ pc = "chunking"
    /\ call \in ChunkCalls
    /\ result = NoResult

\* self.chunker.chunk_by_sections(content, document_id), line 378
ChunkBySections ==
    /\ pc = "chunking"
    /\ pc' = "chunked"
    /\ result' = [kind |-> "chunks", chunks |-> chunk_by_sections(call.text, call.document_id)]
    /\ UNCHANGED <<resetting, call>>

\* the same text is ingested again: a second call with the same arguments
ChunkAgain ==
    /\ pc = "chunked"
    /\ pc' = "rechunked"
    /\ call' = [call EXCEPT !.previous = result.chunks]
    /\ result' = [kind |-> "chunks", chunks |-> chunk_by_sections(call.text, call.document_id)]
    /\ UNCHANGED resetting

NextChunking == ChunkBySections \/ ChunkAgain

\* the chunker alone, on every text
ChunkingSpec == InitChunking /\ [][NextChunking]_vars

-----------------------------------------------------------------------------
(* The awaited search: query hands collection.query to a worker thread and
   waits for it (lines 350-356) *)

\* query up to the await: the collection is resolved and the search handed
\* to the worker thread; get_collection raising ends the call at once
SubmitSearch(question, collection_name, top_k, include_metadata) ==
    IF Unresolved(collection_name, resetting)
    THEN Query(question, collection_name, top_k, include_metadata, NotCalled)
    ELSE /\ pc = "idle"
         /\ pc' = "awaiting"
         /\ call' = [op |-> "query", question |-> question,
                     collection_name |-> collection_name, top_k |-> top_k,
                     include_metadata |-> include_metadata, outcome |-> NotCalled]
         /\ result' = NoResult
         /\ UNCHANGED resetting

\* the index answers (passages or an exception) and query runs to its return
SearchAnswers(outcome) ==
    /\ pc = "awaiting"
    /\ pc' = "done"
    /\ call' = [call EXCEPT !.outcome = outcome]
    /\ result' = query(call.question, call.collection_name, call.include_metadata,
                       resetting, outcome)
    /\ UNCHANGED resetting

\* the index never answers: the worker thread stays blocked, and nothing
\* but its completion resumes the await of lines 351-356
SearchHangs ==
    /\ pc = "awaiting"
    /\ pc' = "hung"
    /\ UNCHANGED <<resetting, call, result>>

AwaitCalls ==
    /\ pc = "idle"
    /\ \E question \in Questions, collection_name \in CollectionNames,
          top_k \in 1..MaxPassages, include_metadata \in BOOLEAN :
            SubmitSearch(question, collection_name, top_k, include_metadata)

AnswerCalls ==
    /\ pc = "awaiting"
    /\ \E outcome \in QueryOutcomes[call.top_k] : SearchAnswers(outcome)

NextAwait == Reset \/ AwaitCalls \/ AnswerCalls \/ SearchHangs \/ Return

\* the retrieval engine with the wait for the index made a step of its own;
\* the event loop runs whatever can run
AwaitSpec == Init /\ [][NextAwait]_vars /\ WF_vars(NextAwait)

-----------------------------------------------------------------------------
(* The steps of query after the search, lines 364-411, on every answer of
   the index: passages of any length, in any order *)

\* a stored chunk of more than 200 characters
LongChunk ==
    [content |-> <<"A"," ","c","u","s","t","o","m","e","r"," ","w","h","o"," ","r","e","p","o","r","t","s"," ","a","n"," ","u","n","a","u","t","h","o","r","i","z","e","d"," ","d","e","b","i","t"," ","m","u","s","t"," ","b","e"," ","c","a","l","l","e","d"," ","b","a","c","k"," ","w","i","t","h","i","n"," ","2","4"," ","h","o","u","r","s","."," ","T","h","e"," ","F","r","a","u","d"," ","R","i","s","k"," ","M","a","n","a","g","e","m","e","n","t"," ","d","e","s","k"," ","p","l","a","c","e","s"," ","a"," ","h","o","l","d"," ","o","n"," ","t","h","e"," ","a","c","c","o","u","n","t",","," ","o","p","e","n","s"," ","a"," ","c","a","s","e",","," ","r","e","c","o","r","d","s"," ","t","h","e"," ","c","u","s","t","o","m","e","r","'","s"," ","s","t","a","t","e","m","e","n","t"," ","a","n","d"," ","t","e","l","l","s"," ","t","h","e"," ","c","u","s","t","o","m","e","r"," ","t","h","e"," ","r","e","f","e","r","e","n","c","e"," ","o","f"," ","t","h","e"," ","c","a","s","e"," ","b","e","f","o","r","e"," ","t","h","e"," ","c","a","l","l"," ","e","n","d","s",".">>,
     metadata |-> Metadata("FRM-001.txt")]

AnyHits == [chunk : StoredChunks \cup {LongChunk}, distance : Distances]

\* results of collection.query with exactly n hits in some order
AnyOrderRankings(n) ==
    { r \in [1..n -> AnyHits] : \A i, j \in 1..n : i # j => r[i].chunk # r[j].chunk }

AnyOutcomes ==
    {[called |-> TRUE, raises |-> TRUE, hits |-> <<>>]}
        \cup {[called |-> TRUE, raises |-> FALSE, hits |-> <<>> \o r] :
                 r \in UNION {AnyOrderRankings(n) : n \in 0..MaxPassages}}

\* the search of a query has answered
InitRetrieval ==
    /\ resetting = NoneValue
    /\ pc = "searched"
    /\ call \in {[op |-> "query", question |-> q, collection_name |-> NoneValue,
                  top_k |-> MaxPassages, include_metadata |-> m, outcome |-> o] :
                    q \in Questions, m \in BOOLEAN, o \in AnyOutcomes}
    /\ result = NoResult

\* query from the answer of the index to its return
ProcessResults ==
    /\ pc = "searched"
    /\ pc' = "done"
    /\ result' = query_collection(call.question, call.include_metadata, call.outcome)
    /\ UNCHANGED <<resetting, call>>

\* the steps after the search alone
RetrievalSpec == InitRetrieval /\ [][ProcessResults]_vars

-----------------------------------------------------------------------------
(* batch_query, lines 1229-1274: one query task per question, gathered.
   Each task hands its search to the default executor of the event loop
   (asyncio.to_thread, line 351), a pool of at most MaxWorkers threads that
   takes the queued searches in the order they were submitted. *)

RECURSIVE BatchesOfLen(_)
BatchesOfLen(n) ==
    IF n = 0 THEN {<<>>}
    ELSE {Append(b, q) : b \in BatchesOfLen(n - 1), q \in Questions}

Batches == UNION {BatchesOfLen(n) : n \in 1..MaxBatch}

\* what the index does with a search of the batch: it raises, finds
\* nothing, or returns one passage
BatchOutcomes ==
    {o \in IndexOutcomes(1) :
        o.hits = <<>> \/ (o.hits[1].chunk.content = ContentCard /\ o.hits[1].distance = 2000)}

\* the tasks of the batch that are in the given status
TasksIn(tasks, status) == {i \in 1..Len(tasks) : tasks[i].status = status}

\* await engine.batch_query(questions): the coroutines are created (line 1270)
BatchQuery(questions) ==
    /\ pc = "idle"
    /\ pc' = "gathering"
    /\ call' = [op |-> "batch_query", questions |-> questions, top_k |-> MaxPassages,
                tasks |-> [i \in 1..Len(questions) |->
                              [status |-> "created", result |-> NoResult]]]
    /\ result' = NoResult
    /\ UNCHANGED resetting

\* the event loop runs the next task up to its await: the search is
\* submitted to the executor
TaskStarts ==
    /\ pc = "gathering"
    /\ TasksIn(call.tasks, "created") # {}
    /\ LET i == CHOOSE k \in TasksIn(call.tasks, "created") :
                    \A j \in TasksIn(call.tasks, "created") : k <= j
       IN  call' = [call EXCEPT !.tasks[i].status = "queued"]
    /\ UNCHANGED <<resetting, pc, result>>

\* an executor that starts a thread for every queued search
WorkerTakes_Unbounded ==
    /\ pc = "gathering"
    /\ TasksIn(call.tasks, "queued") # {}
    /\ LET i == CHOOSE k \in TasksIn(call.tasks, "queued") :
                    \A j \in TasksIn(call.tasks, "queued") : k <= j
       IN  call' = [call EXCEPT !.tasks[i].status = "searching"]
    /\ UNCHANGED <<resetting, pc, result>>

\* a thread of the executor takes the oldest queued search
WorkerTakes ==
    /\ pc = "gathering"
    /\ TasksIn(call.tasks, "queued") # {}
    /\ Cardinality(TasksIn(call.tasks, "searching")) < MaxWorkers
    /\ LET i == CHOOSE k \in TasksIn(call.tasks, "queued") :
                    \A j \in TasksIn(call.tasks, "queued") : k <= j
       IN  call' = [call EXCEPT !.tasks[i].status = "searching"]
    /\ UNCHANGED <<resetting, pc, result>>

\* the search of task i answers and the task runs query to its return
SearchReturns(i, outcome) ==
    /\ pc = "gathering"
    /\ i \in TasksIn(call.tasks, "searching")
    /\ call' = [call EXCEPT !.tasks[i] =
                   [status |-> "answered",
                    result |-> query(call.questions[i], NoneValue, TRUE, resetting, outcome)]]
    /\ UNCHANGED <<resetting, pc, result>>

\* asyncio.gather returns the results in the order of the questions
GatherReturns ==
    /\ pc = "gathering"
    /\ TasksIn(call.tasks, "answered") = 1..Len(call.tasks)
    /\ pc' = "done"
    /\ result' = [kind |-> "batch",
                  results |-> [i \in 1..Len(call.tasks) |-> call.tasks[i].result]]
    /\ UNCHANGED <<resetting, call>>

BatchCalls == pc = "idle" /\ \E questions \in Batches : BatchQuery(questions)

BatchAnswers ==
    /\ pc = "gathering"
    /\ \E i \in 1..MaxBatch, outcome \in BatchOutcomes : SearchReturns(i, outcome)

NextBatch == Reset \/ BatchCalls \/ TaskStarts \/ WorkerTakes \/ BatchAnswers
                \/ GatherReturns \/ Return

\* batch_query alone
BatchSpec == Init /\ [][NextBatch]_vars

-----------------------------------------------------------------------------
(* Two calls of the agent methods gathered on one engine: each runs to its
   search, and the searches answer in either order *)

EngineCalls ==
    {[op |-> "query", question |-> q, collection_name |-> c] :
        q \in Questions, c \in {NoneValue, COLLECTION_POLICIES}}
    \cup {[op |-> "calculate_fraud_risk",
           transaction |-> [fraud_explainability_trace |-> <<"m","u","l","t","i","p","l","e","_","f","a","i","l","u","r","e","s">>,
                            merchant_category |-> <<"c","r","y","p","t","o">>,
                            transaction_timestamp |-> <<"2","0","2","4","-","0","1","-","1","5"," ","0","2",":","3","0",":","0","0">>,
                            amount |-> a]] :
            a \in {[kind |-> "number", val |-> 100000], [kind |-> "none", val |-> 0]}}
    \cup {[op |-> "detect_complaint_category", complaint_text |-> t] :
            t \in {<<"H","A","C","K","E","D">>, <<"s","t","a","t","e","m","e","n","t">>}}
    \cup {[op |-> "validate_product_recommendation", customer_data |-> c,
           recommended_product |-> <<"C","a","r"," ","L","o","a","n">>] :
            c \in {d \in Customers : /\ d.monthly_inflow.val = 300001
                                     /\ d.salary_detected
                                     /\ d.age.kind = "number"}}

\* the call ends before it reaches the index
RaisesBeforeSearch(c, missing) ==
    CASE c.op = "query" -> Unresolved(c.collection_name, missing)
      [] c.op = "calculate_fraud_risk" ->
            FloatRaises(c.transaction.amount) \/ Unresolved(COLLECTION_POLICIES, missing)
      [] OTHER -> Unresolved(COLLECTION_POLICIES, missing)

\* what the call returns when it is the only call on the engine
Handle(c, missing, outcome) ==
    CASE c.op = "query" ->
            query(c.question, c.collection_name, TRUE, missing, outcome)
      [] c.op = "calculate_fraud_risk" ->
            calculate_fraud_risk(c.transaction, missing, outcome)
      [] c.op = "detect_complaint_category" ->
            detect_complaint_category(c.complaint_text, missing, outcome)
      [] c.op = "validate_product_recommendation" ->
            validate_product_recommendation(c.customer_data, c.recommended_product,
                                            missing, outcome)

\* await asyncio.gather(first, second): both coroutines are started
Gather(first, second) ==
    /\ pc = "idle"
    /\ pc' = "running"
    /\ call' = [op |-> "gather",
                tasks |-> [k \in 1..2 |->
                              [call |-> IF k = 1 THEN first ELSE second,
                               status |-> "awaiting", outcome |-> NotCalled,
                               result |-> NoResult]]]
    /\ result' = NoResult
    /\ UNCHANGED resetting

\* a variant of CallReturns in which the call deletes the policy collection
CallReturns_DropsCollection(k, outcome) ==
    /\ pc = "running"
    /\ call.tasks[k].status = "awaiting"
    /\ call' = [call EXCEPT !.tasks[k] =
                   [call |-> call.tasks[k].call, status |-> "returned", outcome |-> outcome,
                    result |-> Handle(call.tasks[k].call, resetting, outcome)]]
    /\ resetting' = COLLECTION_POLICIES
    /\ UNCHANGED <<pc, result>>

\* the search of call k answers and the call runs to its return
CallReturns(k, outcome) ==
    /\ pc = "running"
    /\ call.tasks[k].status = "awaiting"
    /\ call' = [call EXCEPT !.tasks[k] =
                   [call |-> call.tasks[k].call, status |-> "returned", outcome |-> outcome,
                    result |-> Handle(call.tasks[k].call, resetting, outcome)]]
    /\ UNCHANGED <<resetting, pc, result>>

\* gather returns both results
AllReturned ==
    /\ pc = "running"
    /\ \A k \in 1..2 : call.tasks[k].status = "returned"
    /\ pc' = "done"
    /\ result' = [kind |-> "gathered",
                  results |-> [k \in 1..2 |-> call.tasks[k].result]]
    /\ UNCHANGED <<resetting, call>>

GatherCalls == pc = "idle" /\ \E first \in EngineCalls, second \in EngineCalls : Gather(first, second)

ReturningCalls ==
    /\ pc = "running"
    /\ \E k \in 1..2 :
        \E outcome \in (IF RaisesBeforeSearch(call.tasks[k].call, resetting)
                        THEN {NotCalled} ELSE BatchOutcomes) :
            CallReturns(k, outcome)

NextConcurrent == Reset \/ GatherCalls \/ ReturningCalls \/ AllReturned \/ Return

\* two concurrent calls of the agent methods
ConcurrentSpec == Init /\ [][NextConcurrent]_vars

-----------------------------------------------------------------------------
(* extract_department_code on the answers of the retrieval *)

\* fragments of answers: names and codes of departments in several cases,
\* and text that names none
AnswerParts ==
    {<<"f","r","a","u","d"," ","r","i","s","k"," ","m","a","n","a","g","e","m","e","n","t">>, <<"C","a","r","d"," ","O","p","e","r","a","t","i","o","n","s"," ","C","e","n","t","e","r">>, <<"t","s","u">>, <<"C","L","S">>,
     <<"T","r","a","n","s","a","c","t","i","o","n"," ","S","e","r","v","i","c","e","s">>, <<"t","h","e"," ","d","e","s","k">>, <<"C","r","e","d","i","t"," ","&"," ","L","o","a","n"," ","S","e","r","v","i","c","e","s">>, <<"(","A","o","d",")">>}

Answers == {join(<<" ">>, s) : s \in SeqsUpTo(AnswerParts, MaxAnswerParts)}

\* an answer waits for its department code
InitExtraction ==
    /\ resetting = NoneValue
    /\ pc = "extracting"
    /\ call \in {[op |-> "extract_department_code", answer |-> a] : a \in Answers}
    /\ result = NoResult

\* engine.extract_department_code(answer)
ExtractDepartmentCode ==
    /\ pc = "extracting"
    /\ pc' = "extracted"
    /\ result' = [kind |-> "code", code |-> extract_department_code(call.answer)]
    /\ UNCHANGED <<resetting, call>>

\* extract_department_code alone, on every answer
ExtractionSpec == InitExtraction /\ [][ExtractDepartmentCode]_vars

-----------------------------------------------------------------------------
(* Fraud risk scorer: properties of the score, the level and the action *)

\* a transaction was scored and a verdict came back
Scored == pc = "scored" /\ result.kind = "verdict"

\* the transaction with one more flag at the end of its trace
WithFlag(transaction, flag) ==
    [transaction EXCEPT !.fraud_explainability_trace =
        IF @ = Absent THEN flag ELSE @ \o <<",">> \o flag]

\* the flags that FLAG_WEIGHTS knows
RecognizedFlags == {FLAG_WEIGHTS[i][1] : i \in 1..Len(FLAG_WEIGHTS)}

\* C1: the total risk score of every scored transaction is an integer from 0
\* to 100, and one more recognized flag in the trace never lowers it
C1_ScoreInRangeAndMonotone ==
    Scored =>
        /\ result.verdict.total_risk_score \in 0..100
        /\ \A flag \in RecognizedFlags :
              total_risk(risk_breakdown(WithFlag(call.transaction, flag)))
                  >= result.verdict.total_risk_score

\* the parts of a scored transaction add up to more than 100 and the total is 100
C1_Witness ==
    /\ Scored
    /\ result.verdict.total_risk_score = 100
    /\ result.verdict.risk_breakdown.flag_score
         + result.verdict.risk_breakdown.merchant_risk
         + result.verdict.risk_breakdown.timing_risk > 100

\* the bands that contain a score
BandsOf(score) ==
    {i \in 1..Len(RISK_THRESHOLDS) :
        RISK_THRESHOLDS[i][2] <= score /\ score <= RISK_THRESHOLDS[i][3]}

\* C2: every score from 0 to 100 lies in exactly one of the bands LOW 0-30,
\* MEDIUM 31-60, HIGH 61-85, CRITICAL 86-100, and the level of a scored
\* transaction is the band of its total
C2_LevelIsTheBandOfTheTotal ==
    /\ <<RISK_THRESHOLDS[1], RISK_THRESHOLDS[2], RISK_THRESHOLDS[3], RISK_THRESHOLDS[4]>>
         = << <<"LOW", 0, 30>>, <<"MEDIUM", 31, 60>>, <<"HIGH", 61, 85>>,
              <<"CRITICAL", 86, 100>> >>
    /\ \A score \in 0..100 : Cardinality(BandsOf(score)) = 1
    /\ Scored =>
          \E i \in BandsOf(result.verdict.total_risk_score) :
              result.verdict.risk_level = RISK_THRESHOLDS[i][1]

\* a total on the upper edge of the MEDIUM band
C2_Witness ==
    /\ Scored
    /\ result.verdict.total_risk_score = 60
    /\ result.verdict.risk_level = "MEDIUM"

\* C3: should_block holds exactly for CRITICAL, requires_challenge exactly for
\* MEDIUM and HIGH, and the two never hold together
C3_BlockAndChallenge ==
    Scored =>
        /\ result.verdict.should_block <=> result.verdict.risk_level = "CRITICAL"
        /\ result.verdict.requires_challenge
              <=> result.verdict.risk_level \in {"MEDIUM", "HIGH"}
        /\ ~(result.verdict.should_block /\ result.verdict.requires_challenge)

\* a HIGH verdict: challenged, not blocked
C3_Witness ==
    /\ Scored
    /\ result.verdict.risk_level = "HIGH"
    /\ result.verdict.requires_challenge
    /\ ~result.verdict.should_block

\* C4: whatever the retrieval of the explanation does, calculate_fraud_risk
\* returns a result with the score, level, flags and action of the scoring steps
C4_VerdictIndependentOfRetrieval ==
    (pc = "done" /\ call.op = "calculate_fraud_risk"
        /\ ~FloatRaises(call.transaction.amount)) =>
        /\ result.kind = "risk"
        /\ LET v == Verdict(call.transaction)
           IN  /\ result.total_risk_score = v.total_risk_score
               /\ result.risk_level = v.risk_level
               /\ result.risk_breakdown = v.risk_breakdown
               /\ result.requires_challenge = v.requires_challenge
               /\ result.should_block = v.should_block
               /\ result.recommended_action = v.recommended_action

-----------------------------------------------------------------------------
(* Retrieval engine: grounding and citations *)

\* query returned a result
Answered == pc = "done" /\ call.op = "query" /\ result.kind = "query"

\* the similarities of the passages the index returned, in 1/10000
RetrievedSimilarities(outcome) ==
    IF outcome.called /\ ~outcome.raises
    THEN [i \in 1..Len(outcome.hits) |-> 10000 - outcome.hits[i].distance]
    ELSE <<>>

\* some retrieved passage has similarity 0.5 or more
SomePassageRelevant(outcome) ==
    \E i \in 1..Len(RetrievedSimilarities(outcome)) :
        RetrievedSimilarities(outcome)[i] >= 5000

\* C5: a query result is grounded exactly when a retrieved passage has
\* similarity 0.5 or more, and an ungrounded result has no answer
C5_GroundedIffRelevantPassage ==
    Answered =>
        /\ result.grounded <=> SomePassageRelevant(call.outcome)
        /\ ~result.grounded => result.answer = NoneValue

\* grounded on passages of similarity exactly 0.5 and no better
C5_Witness ==
    /\ Answered
    /\ result.grounded
    /\ Len(call.outcome.hits) > 0
    /\ \A i \in 1..Len(call.outcome.hits) : call.outcome.hits[i].distance >= 5000

\* the message of an ungrounded result, by its cause
MessageOfCause(outcome) ==
    IF outcome.raises THEN "Database query failed. Please try again."
    ELSE IF outcome.hits = <<>>
    THEN "No relevant information found in the knowledge base."
    ELSE "Found information but relevance is too low to answer confidently."

C7_QueryNeverRaises ==
    (pc = "done" /\ call.op = "query") =>
        /\ result.kind = "query"
        /\ (call.outcome.raises \/ ~call.outcome.called) => ~result.grounded

\* C8: every source of a grounded result has similarity_score 0.5 or more, and
\* every retrieved passage of similarity 0.5 or more, exactly 0.5 included, is cited
C8_SourcesAtOrAboveThreshold ==
    (Answered /\ result.grounded) =>
        /\ \A i \in 1..Len(result.sources) : result.sources[i].similarity_score >= 500
        /\ Len(result.sources)
             = Cardinality({i \in 1..Len(call.outcome.hits) :
                               call.outcome.hits[i].distance <= 5000})
        /\ \A i \in 1..Len(call.outcome.hits) :
              call.outcome.hits[i].distance = 5000 =>
                  \E j \in 1..Len(result.sources) :
                      /\ result.sources[j].similarity_score = 500
                      /\ result.sources[j].rank = j

\* a passage of similarity exactly 0.5 is cited next to a better one
C8_Witness ==
    /\ Answered
    /\ result.grounded
    /\ Len(result.sources) = 2
    /\ result.sources[2].similarity_score = 500
    /\ result.sources[1].similarity_score > 500

-----------------------------------------------------------------------------
(* Complaint router: priority *)

\* detect_complaint_category returned a routing
Routed == pc = "done" /\ call.op = "detect_complaint_category" /\ result.kind = "routing"

\* C9: a complaint routed to FRM has priority Critical, whatever its text
C9_FraudIsCritical ==
    (Routed /\ result.department_code = "FRM") => result.priority_level = "Critical"

\* routed to FRM with a text whose only keyword asks for High
C9_Witness ==
    /\ Routed
    /\ result.department_code = "FRM"
    /\ call.complaint_text = <<"d","e","c","l","i","n","e","d">>
    /\ result.priority_level = "Critical"

\* the text, lower-cased, contains one of the words
Mentions(complaint_text, keywords) ==
    \E k \in keywords : Contains(lower(complaint_text), k)

\* the priority by first match: FRM, critical words, high words and phrases,
\* low words, else Medium
PriorityByPrecedence(complaint_text, dept_code) ==
    IF dept_code = "FRM" THEN "Critical"
    ELSE IF Mentions(complaint_text,
                     {<<"f","r","a","u","d">>, <<"u","n","a","u","t","h","o","r","i","z","e","d">>, <<"h","a","c","k","e","d">>, <<"s","t","o","l","e","n">>, <<"s","c","a","m">>})
    THEN "Critical"
    ELSE IF Mentions(complaint_text,
                     {<<"d","e","c","l","i","n","e","d">>, <<"s","w","a","l","l","o","w","e","d">>, <<"r","e","t","e","n","t","i","o","n">>, <<"b","l","o","c","k","e","d">>,
                      <<"n","o","t"," ","r","e","c","e","i","v","e","d">>, <<"f","a","i","l","e","d"," ","t","r","a","n","s","f","e","r">>})
    THEN "High"
    ELSE IF Mentions(complaint_text, {<<"s","t","a","t","e","m","e","n","t">>, <<"b","a","l","a","n","c","e">>, <<"i","n","q","u","i","r","y">>})
    THEN "Low"
    ELSE "Medium"

C11_RoutingNeverRaises ==
    (pc = "done" /\ call.op = "detect_complaint_category") =>
        /\ result.kind = "routing"
        /\ ~SomePassageRelevant(call.outcome) =>
              /\ result.department_code = "UNKNOWN"
              /\ result.priority_level = "Medium"
              /\ result.sla_hours = 48

-----------------------------------------------------------------------------
(* Fraud risk scorer: the formula, the timing bonus, malformed fields *)

\* the flags present in the trace, as a set
FlagSet(transaction) ==
    LET flags == split(str(Get(transaction, "fraud_explainability_trace",
                               <<"n","o","r","m","a","l","_","p","a","t","t","e","r","n">>)), <<",">>)
    IN  {strip(flags[i]) : i \in 1..Len(flags)}

\* the sum of FLAG_WEIGHTS over the flags present, each counted once
FlagSetScore(transaction) ==
    SumSeq(<<>> \o [i \in 1..Len(FLAG_WEIGHTS) |->
                IF FLAG_WEIGHTS[i][1] \in FlagSet(transaction)
                THEN FLAG_WEIGHTS[i][2] ELSE 0])

\* MERCHANT_RISK of the category without regard to case, 0 when unknown
MerchantRiskIgnoringCase(transaction) ==
    LET category == strip(lower(str(Get(transaction, "merchant_category", <<>>))))
        known == {i \in 1..Len(MERCHANT_RISK) : MERCHANT_RISK[i][1] = category}
    IN  IF known = {} THEN 0 ELSE MERCHANT_RISK[CHOOSE i \in known : TRUE][2]

\* C17: total_risk_score is min(flag_score + merchant_risk + timing_risk, 100),
\* flag_score being the sum of FLAG_WEIGHTS over the set of flags present, each
\* flag counted once and unknown flags counting 0, and merchant_risk the
\* MERCHANT_RISK of the category without regard to case
C17_ScoreFormula ==
    Scored =>
        /\ result.verdict.risk_breakdown.flag_score = FlagSetScore(call.transaction)
        /\ result.verdict.risk_breakdown.merchant_risk
             = MerchantRiskIgnoringCase(call.transaction)
        /\ result.verdict.total_risk_score
             = Min(FlagSetScore(call.transaction)
                     + MerchantRiskIgnoringCase(call.transaction)
                     + result.verdict.risk_breakdown.timing_risk, 100)

\* the timestamp parses and its hour lies in the window 00:00-05:00
Nocturnal(transaction) ==
    LET timestamp == Get(transaction, "transaction_timestamp", <<>>)
        dt == fromisoformat(replace_space_T(timestamp))
    IN  timestamp # <<>> /\ dt.ok /\ dt.hour \in 0..4

\* C18: timing_risk is 20 exactly when the timestamp parses, its time of day
\* lies in 00:00-05:00 and the amount is 100000 or more; it is 0 otherwise
C18_TimingRisk ==
    Scored =>
        result.verdict.risk_breakdown.timing_risk
            = IF Nocturnal(call.transaction)
                 /\ call.transaction.amount.kind = "number"
                 /\ call.transaction.amount.val >= 100000
              THEN 20 ELSE 0

\* a nocturnal transaction of exactly 100000 gets the bonus
C18_Witness ==
    /\ Scored
    /\ call.transaction.amount = [kind |-> "number", val |-> 100000]
    /\ call.transaction.transaction_timestamp = <<"2","0","2","4","-","0","1","-","1","5","T","0","4",":","5","9">>
    /\ result.verdict.risk_breakdown.timing_risk = 20

\* C19: calculate_fraud_risk never raises for malformed or missing fields, a
\* missing, None or non-numeric amount included: it returns a complete
\* assessment whose timing_risk is 0 when the amount is no number
C19_NeverRaisesOnMalformedFields ==
    (pc = "done" /\ call.op = "calculate_fraud_risk"
        /\ ~Unresolved(COLLECTION_POLICIES, resetting)) =>
        /\ result.kind = "risk"
        /\ call.transaction.amount.kind # "number" =>
              result.risk_breakdown.timing_risk = 0
        /\ result.risk_breakdown.flag_score = flag_score(call.transaction)
        /\ result.risk_breakdown.merchant_risk = merchant_risk(call.transaction)

-----------------------------------------------------------------------------
(* Product eligibility validator *)

\* validate_product_recommendation returned a verdict
Validated ==
    /\ pc = "done"
    /\ call.op = "validate_product_recommendation"
    /\ result.kind = "eligibility"

\* C12: in every result of validate_product_recommendation, for known and
\* unknown products and grounded and ungrounded retrieval, is_eligible holds
\* exactly when unmet_criteria is empty
C12_EligibleIffNothingUnmet ==
    Validated => (result.is_eligible <=> result.unmet_criteria = <<>>)

\* an unknown product on a grounded retrieval: not eligible, with a reason
C12_Witness ==
    /\ Validated
    /\ SomePassageRelevant(call.outcome)
    /\ call.recommended_product = <<"G","o","l","d"," ","C","a","r","d">>
    /\ ~result.is_eligible
    /\ Len(result.unmet_criteria) = 1

\* the three-tier rule: is the customer eligible for the product
EligibleByTier(customer_data, product) ==
    LET inflow == customer_data.monthly_inflow.val
        score == customer_data.car_loan_signal_score.val
    IN  IF product = <<"I","n","v","e","s","t","m","e","n","t"," ","P","l","a","n">> THEN inflow > 2000000
        ELSE IF product = <<"C","a","r"," ","L","o","a","n">> THEN inflow <= 2000000 /\ score >= 70
        ELSE /\ inflow <= 2000000
             /\ score < 70
             /\ customer_data.salary_detected
             /\ inflow > 300000

\* the tier of a product
TierOf(product) ==
    IF product = <<"I","n","v","e","s","t","m","e","n","t"," ","P","l","a","n">> THEN 1
    ELSE IF product = <<"C","a","r"," ","L","o","a","n">> THEN 2
    ELSE 3

TieredProducts == {<<"I","n","v","e","s","t","m","e","n","t"," ","P","l","a","n">>, <<"C","a","r"," ","L","o","a","n">>, <<"P","e","r","s","o","n","a","l"," ","L","o","a","n">>}

NamesInvestmentPlan(unmet_criteria) ==
    \E i \in 1..Len(unmet_criteria) : Contains(unmet_criteria[i], <<"I","n","v","e","s","t","m","e","n","t"," ","P","l","a","n">>)

\* validating a lower tier for a customer above the Investment Plan threshold
LowerTierForHighInflow ==
    /\ Validated
    /\ call.recommended_product \in {<<"C","a","r"," ","L","o","a","n">>, <<"P","e","r","s","o","n","a","l"," ","L","o","a","n">>}
    /\ call.customer_data.monthly_inflow.kind = "number"
    /\ call.customer_data.monthly_inflow.val > 2000000

-----------------------------------------------------------------------------
(* The chunker: claims C15 and C16 *)

\* chunk_by_sections has returned
Chunked == pc = "chunked" /\ result.kind = "chunks"

\* len(content) of a chunk of the text
ContentLen(text, chunk) == JoinedLen(text, chunk.content)

\* the chunk holds a sentence that is longer than MAX_CHUNK_SIZE alone
HoldsOversizedSentence(text, chunk) ==
    \E i \in 1..Len(chunk.content) : text[chunk.content[i]].len > MAX_CHUNK_SIZE

\* C15: every chunk emitted by chunk_by_sections has at most MAX_CHUNK_SIZE
\* characters of content, unless a single sentence of it is longer than
\* MAX_CHUNK_SIZE alone; sub-chunks made of overlap sentences and new
\* sentences joined with spaces stay within the budget.
C15_ChunkWithinBudget ==
    Chunked =>
        \A i \in 1..Len(result.chunks) :
            \/ ContentLen(call.text, result.chunks[i]) <= MAX_CHUNK_SIZE
            \/ HoldsOversizedSentence(call.text, result.chunks[i])

\* the number of the section that holds the sentence at position s
SectionOrdinal(text, s) == Cardinality({i \in 1..s : text[i].kind = "separator"})

\* the section numbered k is longer than MAX_CHUNK_SIZE
Oversized(text, k) ==
    LET sentences == {s \in 1..Len(text) :
                         text[s].kind = "sentence" /\ SectionOrdinal(text, s) = k}
    IN  SumLen(text, Ascending(sentences)) + Cardinality(sentences) - 1 > MAX_CHUNK_SIZE

\* the identifier that document_id, the section ordinal and the sub-chunk
\* ordinal give to the chunk at place i of chunks
OrdinalId(text, document_id, chunks, i) ==
    LET k   == SectionOrdinal(text, chunks[i].content[1])
        sub == Cardinality({j \in 1..(i - 1) :
                               SectionOrdinal(text, chunks[j].content[1]) = k})
    IN  IF Oversized(text, k)
        THEN document_id \o <<"_","s","e","c">> \o IntToStr(k) \o <<"_","s","u","b">> \o IntToStr(sub)
        ELSE document_id \o <<"_","s","e","c">> \o IntToStr(k)

\* C16: chunk_by_sections is deterministic: a second call with the same text
\* and document_id returns the same sequence of chunk_id, content,
\* section_title and chunk_index, and every chunk_id is built from
\* document_id, the section ordinal and, for a split section, the sub-chunk
\* ordinal alone.
C16_Deterministic ==
    (pc = "rechunked") =>
        /\ result.chunks = call.previous
        /\ \A i \in 1..Len(result.chunks) :
              /\ result.chunks[i].chunk_id =
                     OrdinalId(call.text, call.document_id, result.chunks, i)
              /\ result.chunks[i].chunk_index = i - 1

\* a text whose first section is skipped and whose second is split in two
C16_Witness ==
    /\ pc = "rechunked"
    /\ Len(result.chunks) = 2
    /\ result.chunks[1].chunk_id = <<"F","R","M","-","0","0","1","_","s","e","c","1","_","s","u","b","0">>
    /\ result.chunks[2].chunk_id = <<"F","R","M","-","0","0","1","_","s","e","c","1","_","s","u","b","1">>

-----------------------------------------------------------------------------
(* The awaited search: claim C20 *)

\* C20: every call to query eventually returns: when the similarity index
\* does not answer, query returns (the ungrounded result) instead of
\* waiting forever.
C20_QueryEventuallyReturns == (pc = "awaiting") ~> (pc = "done")

-----------------------------------------------------------------------------
(* The retrieval engine: claims C21 to C24 *)

\* max(0, min(1, x)) of a similarity in 1/10000
ClampUnit(x) == IF x < 0 THEN 0 ELSE IF x > 10000 THEN 10000 ELSE x

\* C21: for every distance the index returns the similarity of the passage
\* is max(0, min(1, 1 - distance)), so every passage similarity, every
\* citation similarity_score and the confidence of every query result lie
\* in [0, 1].
C21_SimilarityClamped ==
    (Answered /\ call.outcome.called /\ ~call.outcome.raises) =>
        LET retrieved_chunks ==
                process_retrieval_results(call.outcome.hits, call.include_metadata)
        IN  /\ \A i \in 1..Len(retrieved_chunks) :
                  /\ retrieved_chunks[i].similarity =
                         ClampUnit(10000 - call.outcome.hits[i].distance)
                  /\ retrieved_chunks[i].similarity \in 0..10000
            /\ result.confidence \in 0..1000
            /\ \A i \in 1..Len(result.sources) :
                  result.sources[i].similarity_score \in 0..1000

\* the passages of the index's answer that clear the relevance threshold,
\* in the order the index returned them
ClearedHits(outcome) ==
    SelectSeq(outcome.hits, LAMBDA h : 10000 - h.distance >= RELEVANCE_THRESHOLD)

\* a grounded result of query
Grounded == Answered /\ result.grounded

\* one citation per cleared passage, ranked 1..n in sequence
OneCitationPerClearedPassage ==
    /\ Len(result.sources) = Len(ClearedHits(call.outcome))
    /\ \A i \in 1..Len(result.sources) : result.sources[i].rank = i

\* similarity_score does not increase as rank increases
DescendingSimilarity ==
    \A i, j \in 1..Len(result.sources) :
        i < j => result.sources[i].similarity_score >= result.sources[j].similarity_score

\* the index returned its passages nearest first
NearestFirst(outcome) ==
    \A i, j \in 1..Len(outcome.hits) :
        i < j => outcome.hits[i].distance <= outcome.hits[j].distance

\* C22 as stated: in every grounded query result sources holds exactly one
\* citation per passage that cleared the relevance threshold, with ranks
\* 1..n in sequence and similarity_score non-increasing as rank increases,
\* whatever order the index returned the passages in.
C22_DescendingWhateverTheOrder ==
    Grounded => OneCitationPerClearedPassage /\ DescendingSimilarity

\* C22, amended: in every grounded query result sources holds exactly one
\* citation per passage that cleared the relevance threshold, with ranks
\* 1..n in sequence, in the order the index returned the passages; the
\* similarity_score is non-increasing as rank increases when the index
\* returned the passages nearest first.
C22_CitationsInIndexOrder ==
    Grounded =>
        /\ OneCitationPerClearedPassage
        /\ \A i \in 1..Len(result.sources) :
              result.sources[i].similarity_score =
                  Round3(10000 - ClearedHits(call.outcome)[i].distance, 1)
        /\ NearestFirst(call.outcome) => DescendingSimilarity

\* two passages cleared the threshold, nearest first, at different similarities
C22_Witness ==
    /\ Grounded
    /\ NearestFirst(call.outcome)
    /\ Len(result.sources) = 2
    /\ result.sources[1].similarity_score > result.sources[2].similarity_score

\* C23: every citation's snippet is at most 200 characters long and is a
\* prefix of the content of the cited chunk, for chunks of any length.
C23_SnippetIsShortPrefix ==
    Grounded =>
        \A i \in 1..Len(result.sources) :
            LET snippet == result.sources[i].snippet
                content == ClearedHits(call.outcome)[i].chunk.content
            IN  /\ Len(snippet) <= 200
                /\ Len(snippet) <= Len(content)
                /\ snippet = SubSeq(content, 1, Len(snippet))

\* s is a verbatim substring of the content of a passage that cleared the threshold
InSomePassage(s, passages) ==
    \E i \in 1..Len(passages) : Contains(passages[i].chunk.content, s)

RECURSIVE Extracted(_, _, _, _)
\* answer from position `from` on is a concatenation of at most `pieces`
\* verbatim substrings of the passages
Extracted(answer, from, pieces, passages) ==
    \/ from > Len(answer)
    \/ /\ pieces > 0
       /\ \/ InSomePassage(SubSeq(answer, from, Len(answer)), passages)
          \/ /\ pieces > 1
             /\ \E to \in from..(Len(answer) - 1) :
                   /\ InSomePassage(SubSeq(answer, from, to), passages)
                   /\ Extracted(answer, to + 1, pieces - 1, passages)

\* C24: for every grounded query result the answer is a verbatim substring,
\* or a concatenation of verbatim substrings (one extract per passage at
\* most), of the contents of the retrieved passages that cleared the
\* threshold: the synthesizer adds no text of its own.
C24_AnswerIsExtracted ==
    Grounded =>
        Extracted(result.answer, 1, Len(ClearedHits(call.outcome)),
                  ClearedHits(call.outcome))

-----------------------------------------------------------------------------
(* batch_query: claim C26 *)

\* the searches of the batch that a thread is running against the index
InFlight == IF pc = "gathering" THEN TasksIn(call.tasks, "searching") ELSE {}

\* the queries of the batch that have started and wait for their search
Issued ==
    IF pc = "gathering"
    THEN TasksIn(call.tasks, "queued") \cup TasksIn(call.tasks, "searching")
    ELSE {}

-----------------------------------------------------------------------------
(* Shared state: claim C25 *)

\* a step taken while calls are running leaves the collections of the index
\* as they were, and every call that has returned holds what it returns
\* when it runs alone
FrameStep ==
    pc = "running" =>
        /\ resetting' = resetting
        /\ \A k \in 1..2 :
              call'.tasks[k].status = "returned" =>
                  call'.tasks[k].result =
                      Handle(call'.tasks[k].call, resetting', call'.tasks[k].outcome)

-----------------------------------------------------------------------------
(* extract_department_code: claim C27 *)

\* the departments in the order of DEPARTMENT_MAPPING
DepartmentOrder == <<"TSU", "COC", "FRM", "DCS", "AOD", "CLS">>

\* the name or the code of the department occurs in the answer, whatever the case
Names(answer, dept) ==
    \E i \in 1..Len(DEPARTMENT_MAPPING) :
        /\ DEPARTMENT_MAPPING[i][2] = dept
        /\ Contains(lower(answer), lower(DEPARTMENT_MAPPING[i][1]))

\* C27: extract_department_code returns the code of the first entry of
\* DEPARTMENT_MAPPING, in table order, whose name or code occurs as a
\* case-insensitive substring of the answer, and 'UNKNOWN' iff no entry occurs.
C27_FirstDepartmentNamed ==
    (pc = "extracted") =>
        /\ result.code = "UNKNOWN" <=>
              \A d \in 1..Len(DepartmentOrder) : ~Names(call.answer, DepartmentOrder[d])
        /\ \A d \in 1..Len(DepartmentOrder) :
              (/\ Names(call.answer, DepartmentOrder[d])
               /\ \A e \in 1..(d - 1) : ~Names(call.answer, DepartmentOrder[e]))
                  => result.code = DepartmentOrder[d]

\* an answer that names a later department first and an earlier one in
\* lower case
C27_Witness ==
    /\ pc = "extracted"
    /\ call.answer = <<"C","L","S"," ","t","s","u">>
    /\ result.code = "TSU"

-----------------------------------------------------------------------------
(* _split_large_section: claims C28 and C30 *)

\* the sentences of a sequence
Elements(s) == {s[i] : i \in 1..Len(s)}

\* the chunks at places i and i + 1 are consecutive sub-chunks of one split section
ConsecutiveSubChunks(text, chunks, i) ==
    /\ i + 1 <= Len(chunks)
    /\ SectionOrdinal(text, chunks[i].content[1])
           = SectionOrdinal(text, chunks[i + 1].content[1])
    /\ Oversized(text, SectionOrdinal(text, chunks[i].content[1]))

\* next begins with the last n sentences of previous and goes on with a
\* sentence that previous does not hold
OverlapsBy(previous, next, n) ==
    /\ n <= Len(previous)
    /\ n < Len(next)
    /\ SubSeq(next, 1, n) = SubSeq(previous, Len(previous) - n + 1, Len(previous))
    /\ next[n + 1] \notin Elements(previous)

SentencesOf(text, k) ==
    {s \in 1..Len(text) : text[s].kind = "sentence" /\ SectionOrdinal(text, s) = k}

\* C30: _split_large_section loses no text: every sentence of the section
\* is in at least one returned sub-chunk, and the first new sentence of each
\* sub-chunk is the one that directly follows the last sentence of the
\* previous sub-chunk in the section.
C30_NoSentenceLost ==
    Chunked =>
        /\ \A k \in 0..Len(call.text) :
              Oversized(call.text, k) =>
                  SentencesOf(call.text, k) \subseteq
                      UNION {Elements(result.chunks[i].content) : i \in 1..Len(result.chunks)}
        /\ \A i \in 1..Len(result.chunks) :
              ConsecutiveSubChunks(call.text, result.chunks, i) =>
                  LET previous == result.chunks[i].content
                      next == result.chunks[i + 1].content
                      new == {j \in 1..Len(next) : next[j] \notin Elements(previous)}
                  IN  /\ new # {}
                      /\ next[CHOOSE j \in new : \A m \in new : j <= m]
                             = previous[Len(previous)] + 1

\* a section of four sentences split in three sub-chunks
C30_Witness ==
    /\ Chunked
    /\ Len(call.text) = 4
    /\ Len(result.chunks) = 3
    /\ result.chunks[3].content[Len(result.chunks[3].content)] = 4

-----------------------------------------------------------------------------
(* The product hierarchy: claim C29 *)

\* validate_product_recommendation finds the customer eligible for the
\* product on the given answer of the index
EligibleFor(customer_data, product, outcome) ==
    LET validation ==
            validate_product_recommendation(customer_data, product, NoneValue, outcome)
    IN  validation.kind = "eligibility" /\ validation.is_eligible

\* C29: for every customer and every retrieval outcome, at most one of the
\* products 'Investment Plan', 'Car Loan' and 'Personal Loan' is validated
\* with is_eligible true: when a validation finds the customer eligible, the
\* validation of each other product does not, whether its own retrieval
\* fails, finds nothing or is grounded.
C29_AtMostOneProductEligible ==
    (Validated /\ result.is_eligible) =>
        \A product \in TieredProducts \ {call.recommended_product} :
            \A outcome \in BatchOutcomes :
                ~EligibleFor(call.customer_data, product, outcome)

\* a salaried customer with an inflow between the thresholds and a score of
\* 0.7 is eligible for Car Loan, and for it alone
C29_Witness ==
    /\ Validated
    /\ result.is_eligible
    /\ call.recommended_product = <<"C","a","r"," ","L","o","a","n">>
    /\ call.customer_data.salary_detected
    /\ call.customer_data.monthly_inflow.val = 300001
    /\ call.customer_data.car_loan_signal_score.val = 70

====
